---- MODULE Spec2Model ----
(***************************************************************************)
(* Verification model of the therapy check-in backend (new_backend.py):    *)
(* the check-in upsert, the therapist endpoints, the week-start resolution *)
(* and the weekly report summary.                                          *)
(*                                                                         *)
(* Conventions.  A nullable column is a sequence of length at most one:    *)
(* <<>> is NULL, <<v>> is the value v.  A table is a sequence of rows, the *)
(* primary key of a row being its position (autoincrement ids start at 1   *)
(* and no flow of the program deletes a row).  A calendar date is its      *)
(* proleptic Gregorian ordinal (date.toordinal()).  Text received from a   *)
(* request is a sequence of one-character strings.                         *)
(***************************************************************************)
EXTENDS Integers, Sequences, FiniteSets, TLC

VARIABLES
    users,        \* table users: [email, role]; an email is a tuple of strings
    therapists,   \* table therapists: [user_id, license_number, name]; a license
                  \* number is a pair <<text, number>>
    clients,      \* table clients: [user_id, client_serial, therapist_id]
    goals,        \* table weekly_goals: [client_id, therapist_id, goal_text, week_start]
    notes,        \* table therapist_notes: [client_id, therapist_id, note_type, content,
                  \*                         is_mission, created_at]
    plans,        \* table client_tracking_plans: [client_id, category_id]
    checkins,     \* table daily_checkins
    responses,    \* table category_responses
    completions,  \* table goal_completions
    reply,        \* the response to the request served last
    tx,           \* the submit_checkin requests in flight, one per worker
    served,       \* number of requests accepted so far
    wk_in,        \* the <week> designator of the report request being served
    wk_out,       \* the week dates the handler computed from it, or its error
    rpt,          \* the workbook of the weekly report compiled last
    gen,          \* generate_client_serial: its position and the serial drawn
    categories,   \* table tracking_categories: [name, is_default]
    initialized   \* _initialized of the running web process

store == <<users, therapists, clients, goals, notes, plans, checkins, responses, completions>>
weekvars == <<wk_in, wk_out>>
vars == <<users, therapists, clients, goals, notes, plans, checkins, responses, completions,
          reply, tx, served, wk_in, wk_out, rpt, gen, categories, initialized>>

NULL == <<>>
Some(v) == <<v>>

\* bcrypt.generate_password_hash(password) of a text.
Bcrypt(password) == [alg |-> "bcrypt", of |-> password]

\* The categories every seeding writes, in this order, with is_default.
BuiltInCategories ==
    << [name |-> "Emotion Level", is_default |-> TRUE],
       [name |-> "Energy", is_default |-> TRUE],
       [name |-> "Social Activity", is_default |-> TRUE],
       [name |-> "Sleep Quality", is_default |-> FALSE],
       [name |-> "Anxiety Level", is_default |-> FALSE],
       [name |-> "Motivation", is_default |-> FALSE] >>

\* A User row: email, password_hash, role, is_active, last_login.
UserRow(email, role, password_hash, is_active) ==
    [email |-> email, role |-> role, password_hash |-> password_hash,
     is_active |-> is_active, last_login |-> NULL]

\* User(email=..., password_hash=bcrypt.generate_password_hash(password),
\* role=...): is_active and last_login take the column defaults.  Every
\* account is given the password "pw".
NewUser(email, role) == UserRow(email, role, Bcrypt("pw"), TRUE)

NoReply == [op |-> "none", who |-> 0, status |-> 0, error |-> ""]
NoReport == [made |-> FALSE, checkins_completed |-> 0, completion_rating |-> ""]
NoGen == [pc |-> "idle", serial |-> <<>>]

Min(S) == CHOOSE x \in S : \A y \in S : x <= y

-----------------------------------------------------------------------------
(* Text helpers: what int() and str.split() do to request text.           *)

Digits == <<"0", "1", "2", "3", "4", "5", "6", "7", "8", "9">>

IsDigit(ch) == \E i \in 1..10 : Digits[i] = ch

DigitVal(ch) == (CHOOSE i \in 1..10 : Digits[i] = ch) - 1

RECURSIVE DigitsValue(_)
DigitsValue(s) ==
    IF s = <<>> THEN 0
    ELSE 10 * DigitsValue(SubSeq(s, 1, Len(s) - 1)) + DigitVal(s[Len(s)])

AllDigits(s) == Len(s) > 0 /\ \A i \in 1..Len(s) : IsDigit(s[i])

\* int(text): an optional sign, then one or more decimal digits; anything
\* else raises ValueError.  The result is [ok, v].
PyInt(s) ==
    IF Len(s) > 1 /\ s[1] \in {"-", "+"} /\ AllDigits(Tail(s))
    THEN [ok |-> TRUE, v |-> IF s[1] = "-" THEN 0 - DigitsValue(Tail(s)) ELSE DigitsValue(Tail(s))]
    ELSE IF AllDigits(s) THEN [ok |-> TRUE, v |-> DigitsValue(s)]
    ELSE [ok |-> FALSE, v |-> 0]

\* The positions at which the separator "-W" starts in s.
SepPositions(s) == {i \in 1..(Len(s) - 1) : s[i] = "-" /\ s[i + 1] = "W"}

-----------------------------------------------------------------------------
(* Calendar helpers: datetime(year, 1, 1), weekday(), timedelta.           *)

IsLeap(y) == (y % 4 = 0) /\ ((y % 100 # 0) \/ (y % 400 = 0))

DaysInMonth(y, m) ==
    IF m = 2 THEN (IF IsLeap(y) THEN 29 ELSE 28)
    ELSE IF m \in {4, 6, 9, 11} THEN 30 ELSE 31

DaysBeforeYear(y) ==
    (y - 1) * 365 + ((y - 1) \div 4) - ((y - 1) \div 100) + ((y - 1) \div 400)

RECURSIVE DaysBeforeMonth(_, _)
DaysBeforeMonth(y, m) ==
    IF m = 1 THEN 0 ELSE DaysBeforeMonth(y, m - 1) + DaysInMonth(y, m - 1)

\* date(y, m, d).toordinal()
Ordinal(y, m, d) == DaysBeforeYear(y) + DaysBeforeMonth(y, m) + d

\* date.weekday(): Monday is 0, Sunday is 6
Weekday(ord) == (ord + 6) % 7

-----------------------------------------------------------------------------
(* Week-start resolution, as generate_report and the other report          *)
(* endpoints compute it from the <year>-W<week> designator.                *)

\* year, week_num = week.split('-W'); int(year); int(week_num)
ParseWeek(week) ==
    LET seps == SepPositions(week)
        i    == CHOOSE p \in seps : TRUE
        yr   == PyInt(SubSeq(week, 1, i - 1))
        wn   == PyInt(SubSeq(week, i + 2, Len(week)))
    IN  IF Cardinality(seps) # 1 THEN [ok |-> FALSE, year |-> 0, week_num |-> 0]
        ELSE IF ~yr.ok \/ ~wn.ok THEN [ok |-> FALSE, year |-> 0, week_num |-> 0]
        ELSE [ok |-> TRUE, year |-> yr.v, week_num |-> wn.v]

\* days_to_monday = (7 - jan1.weekday()) % 7; if it is 0 it becomes 7
DaysToMonday(jan1) ==
    LET d == (7 - Weekday(jan1)) % 7 IN IF d = 0 THEN 7 ELSE d

\* first_monday = jan1 + timedelta(days=days_to_monday - 7)
FirstMonday(year) ==
    LET jan1 == Ordinal(year, 1, 1) IN jan1 + (DaysToMonday(jan1) - 7)

\* week_start = first_monday + timedelta(weeks=week_num - 1)
WeekStart(year, week_num) == FirstMonday(year) + 7 * (week_num - 1)

\* The whole computation on the request text; datetime(year, 1, 1) raises
\* ValueError outside 1..9999.
ResolveWeek(week) ==
    LET p == ParseWeek(week)
    IN  IF ~p.ok \/ p.year < 1 \/ p.year > 9999
        THEN [ok |-> FALSE, year |-> 0, week_num |-> 0, week_start |-> 0, week_end |-> 0]
        ELSE [ok |-> TRUE, year |-> p.year, week_num |-> p.week_num,
              week_start |-> WeekStart(p.year, p.week_num),
              week_end |-> WeekStart(p.year, p.week_num) + 6]

-----------------------------------------------------------------------------
(* Specification SpecWeek: the week designators a report request carries.  *)

FirstYear == 2020
NumYears == 8
MaxWeek == 14

Years == FirstYear..(FirstYear + NumYears - 1)
Weeks == 1..MaxWeek

RECURSIVE NatText(_)
NatText(n) == IF n < 10 THEN <<Digits[n + 1]>> ELSE NatText(n \div 10) \o <<Digits[(n % 10) + 1]>>

\* "2024-W1", and "2024-W01" as a browser's week input writes it
WeekText(y, w) == NatText(y) \o <<"-", "W">> \o NatText(w)
WeekTextPadded(y, w) == NatText(y) \o <<"-", "W">> \o (IF w < 10 THEN <<"0">> ELSE <<>>) \o NatText(w)

MalformedWeeks ==
    { <<"2", "0", "2", "4">>,
      <<"2", "0", "2", "4", "-", "W">>,
      <<"2", "0", "2", "4", "-", "W", "x">>,
      <<"-", "W", "3">>,
      <<"2", "0", "2", "4", "-", "W", "1", "-", "W", "2">>,
      <<"0", "-", "W", "1">> }

WeekInputs ==
    {WeekText(y, w) : y \in Years, w \in Weeks}
        \cup {WeekTextPadded(y, w) : y \in Years, w \in Weeks}
        \cup MalformedWeeks

NoWeek == [ok |-> FALSE, year |-> 0, week_num |-> 0, week_start |-> 0, week_end |-> 0]

InitWeek ==
    /\ wk_in \in WeekInputs
    /\ wk_out = [state |-> "pending", r |-> NoWeek]
    /\ users = <<>> /\ therapists = <<>> /\ clients = <<>> /\ goals = <<>> /\ notes = <<>> /\ plans = <<>>
    /\ checkins = <<>> /\ responses = <<>> /\ completions = <<>>
    /\ reply = NoReply /\ tx = <<>> /\ served = 0 /\ rpt = NoReport /\ gen = NoGen
    /\ categories = BuiltInCategories /\ initialized = TRUE

\* The handler's "Parse week" and "Calculate week dates" blocks.
CalculateWeekDates ==
    /\ wk_out.state = "pending"
    /\ wk_out' = [state |-> "done", r |-> ResolveWeek(wk_in)]
    /\ UNCHANGED <<wk_in, store, reply, tx, served, rpt, gen, categories, initialized>>

NextWeek == CalculateWeekDates

SpecWeek == InitWeek /\ [][NextWeek]_vars

-----------------------------------------------------------------------------
(* C7.  Week-start resolution of <year>-W<week> yields the first Monday at *)
(* or after January 1 of that year plus (week - 1) whole weeks; 2024-W1 is *)
(* Monday 2024-01-01 and 2023-W1 is Monday 2023-01-02.                     *)

FirstMondayOnOrAfter(ord) == CHOOSE m \in ord..(ord + 6) : Weekday(m) = 0

C7_WeekStartIsFirstMondayOnOrAfterJan1 ==
    (wk_out.state = "done" /\ wk_out.r.ok) =>
        /\ wk_out.r.week_start =
              FirstMondayOnOrAfter(Ordinal(wk_out.r.year, 1, 1)) + 7 * (wk_out.r.week_num - 1)
        /\ (wk_out.r.year = 2024 /\ wk_out.r.week_num = 1) => wk_out.r.week_start = Ordinal(2024, 1, 1)
        /\ (wk_out.r.year = 2023 /\ wk_out.r.week_num = 1) => wk_out.r.week_start = Ordinal(2023, 1, 2)


-----------------------------------------------------------------------------
(* Request values and their conversion by the typed columns.               *)

\* A JSON value of a request body: an integer, a boolean (n is 0 or 1), a
\* non-numeric text such as "abc", or null / an absent key.
JInt(n) == [t |-> "int", n |-> n]
JBool(n) == [t |-> "bool", n |-> n]
JText == [t |-> "str", n |-> 0]
JNull == [t |-> "null", n |-> 0]

\* db.Column(db.Integer): an integer is stored, None is NULL, a text that
\* is no number and a boolean are refused by the store when the row is
\* flushed (DataError / ProgrammingError).
IntColumn(j) ==
    IF j.t = "int" THEN [ok |-> TRUE, v |-> Some(j.n)]
    ELSE IF j.t = "null" THEN [ok |-> TRUE, v |-> NULL]
    ELSE [ok |-> FALSE, v |-> NULL]

\* db.Column(db.Boolean): True, False, 1, 0 and None pass the type; any
\* other value is refused when the row is flushed.
BoolColumn(j) ==
    IF j.t = "bool" \/ (j.t = "int" /\ j.n \in {0, 1}) THEN [ok |-> TRUE, v |-> Some(j.n = 1)]
    ELSE IF j.t = "null" THEN [ok |-> TRUE, v |-> NULL]
    ELSE [ok |-> FALSE, v |-> NULL]

\* The positions of "-" in a date text.
DashPositions(s) == {i \in 1..Len(s) : s[i] = "-"}

\* datetime.strptime(text, '%Y-%m-%d').date(): four digits, one or two
\* digits, one or two digits, and a day that exists; else ValueError.
ParseDate(s) ==
    LET ds == DashPositions(s)
        p1 == Min(ds)
        p2 == Min(ds \ {p1})
        ys == SubSeq(s, 1, p1 - 1)
        ms == SubSeq(s, p1 + 1, p2 - 1)
        dd == SubSeq(s, p2 + 1, Len(s))
        y  == DigitsValue(ys)
        m  == DigitsValue(ms)
        d  == DigitsValue(dd)
    IN  IF Cardinality(ds) # 2 THEN [ok |-> FALSE, date |-> 0]
        ELSE IF ~(AllDigits(ys) /\ Len(ys) = 4 /\ AllDigits(ms) /\ Len(ms) <= 2
                    /\ AllDigits(dd) /\ Len(dd) <= 2)
             THEN [ok |-> FALSE, date |-> 0]
        ELSE IF ~(y >= 1 /\ m \in 1..12 /\ d >= 1 /\ d <= DaysInMonth(y, m))
             THEN [ok |-> FALSE, date |-> 0]
        ELSE [ok |-> TRUE, date |-> Ordinal(y, m, d)]

\* str.zfill(width): zeros on the left up to the width, nothing cut off.
RECURSIVE ZFill(_, _)
ZFill(s, width) == IF Len(s) >= width THEN s ELSE ZFill(<<"0">> \o s, width)

\* 'C' followed by the eight digits of n
Serial(n) == <<"C">> \o ZFill(NatText(n), 8)

TwoDigits(n) == IF n < 10 THEN <<"0">> \o NatText(n) ELSE NatText(n)

\* date(y, m, d).isoformat()
IsoFormat(ymd) == NatText(ymd[1]) \o <<"-">> \o TwoDigits(ymd[2]) \o <<"-">> \o TwoDigits(ymd[3])

-----------------------------------------------------------------------------
(* The session of one request: the rows it has written to the store and    *)
(* not yet committed, and the one change it has staged and not yet         *)
(* flushed.  A query autoflushes the staged change and then reads the      *)
(* committed tables overlaid with the session's own writes.                *)

NumCategories == 6
CategoryIds == 1..NumCategories

NoWrites == [upd |-> <<>>, ins |-> <<>>]
EmptyDelta == [checkins |-> NoWrites, responses |-> NoWrites, completions |-> NoWrites]
NoPend == [kind |-> "none", tbl |-> "", loc |-> <<"none", 0>>, row |-> <<>>, base |-> <<>>, bad |-> ""]

Tables == [checkins |-> checkins, responses |-> responses, completions |-> completions,
           goals |-> goals]

\* Row i of a committed table as the session sees it.
EffRow(T, D, tbl, i) == IF i \in DOMAIN D[tbl].upd THEN D[tbl].upd[i] ELSE T[tbl][i]

RowAt(T, D, tbl, loc) == IF loc[1] = "row" THEN EffRow(T, D, tbl, loc[2]) ELSE D[tbl].ins[loc[2]]

\* A query without the autoflush would not see the rows the session added.
SessionInsertsUnflushed(D, tbl) == <<>>

\* The rows the session has added to a table: the session autoflushes
\* before every query, so the query reads them too.
SessionInserts(D, tbl) == D[tbl].ins

\* Model.query.filter_by(...).first() after the autoflush: the first row
\* matching P among the committed rows and the session's own inserts.
QueryFirst(T, D, tbl, P(_)) ==
    LET rs == {i \in 1..Len(T[tbl]) : P(EffRow(T, D, tbl, i))}
        ns == {k \in 1..Len(SessionInserts(D, tbl)) : P(D[tbl].ins[k])}
    IN  IF rs # {} THEN <<"row", Min(rs)>>
        ELSE IF ns # {} THEN <<"new", Min(ns)>>
        ELSE <<"none", 0>>

\* The unique constraints the models declare: DailyCheckin (client_id,
\* checkin_date) and GoalCompletion (goal_id, completion_date).
\* CategoryResponse declares none.
UniqueKey(tbl, row) ==
    IF tbl = "checkins" THEN Some(<<row.client_id, row.checkin_date>>)
    ELSE IF tbl = "completions" THEN Some(<<row.goal_id, row.completion_date>>)
    ELSE NULL

\* The foreign keys of an inserted row must name existing rows.
ForeignKeysOk(T, tbl, row) ==
    IF tbl = "responses" THEN row.category_id \in CategoryIds
    ELSE IF tbl = "completions" THEN row.goal_id \in 1..Len(T.goals)
    ELSE TRUE

\* nullable=False columns that a request can leave empty.
NotNullOk(tbl, row) ==
    IF tbl = "responses" THEN row.value # NULL
    ELSE IF tbl = "completions" THEN row.completed # NULL
    ELSE TRUE

\* An UPDATE writes the columns the session changed and leaves the others
\* as the store holds them now.
MergeUpdate(cur, base, row) ==
    [f \in DOMAIN row |-> IF row[f] # base[f] THEN row[f] ELSE cur[f]]

\* An except branch that answers 500 without db.session.rollback().
FailWithoutRollback(t, cause) ==
    [t EXCEPT !.pc = "done", !.status = 500, !.error = cause, !.pend = NoPend]

\* except Exception: db.session.rollback(); return error, 500
Fail(t, cause) ==
    [t EXCEPT !.pc = "done", !.status = 500, !.error = cause,
              !.D = EmptyDelta, !.pend = NoPend]

\* session.flush(): the staged change reaches the store, which checks the
\* value types, NOT NULL, the foreign keys and the unique constraints.
Flush(T, t) ==
    LET pd  == t.pend
        tbl == pd.tbl
        key == UniqueKey(tbl, pd.row)
        dup == /\ key # NULL
               /\ \/ \E i \in 1..Len(T[tbl]) : UniqueKey(tbl, EffRow(T, t.D, tbl, i)) = key
                  \/ \E k \in 1..Len(t.D[tbl].ins) : UniqueKey(tbl, t.D[tbl].ins[k]) = key
    IN  IF pd.kind = "none" THEN t
        ELSE IF pd.bad # "" THEN Fail(t, pd.bad)
        ELSE IF ~NotNullOk(tbl, pd.row) THEN Fail(t, "not null")
        ELSE IF pd.kind = "ins"
        THEN IF ~ForeignKeysOk(T, tbl, pd.row) THEN Fail(t, "foreign key")
             ELSE IF dup THEN Fail(t, "unique")
             ELSE [t EXCEPT !.D[tbl].ins = Append(@, pd.row), !.pend = NoPend]
        ELSE IF pd.loc[1] = "new"
        THEN [t EXCEPT !.D[tbl].ins[pd.loc[2]] = pd.row, !.pend = NoPend]
        ELSE [t EXCEPT !.D[tbl].upd =
                          (pd.loc[2] :> MergeUpdate(EffRow(T, t.D, tbl, pd.loc[2]), pd.base, pd.row)) @@ @,
                       !.pend = NoPend]

\* An update that keeps the stored value of a column the request leaves null.
StageUpdateKeepingOmitted(T, t, tbl, loc, row, bad) ==
    LET base == RowAt(T, t.D, tbl, loc)
        omitted == {f \in DOMAIN row \cap {"emotional_value", "emotional_notes",
                        "medication_value", "medication_notes", "activity_value",
                        "activity_notes"} : row[f] = NULL}
        kept == [f \in DOMAIN row |-> IF f \in omitted THEN base[f] ELSE row[f]]
    IN  IF bad = "" /\ kept = base THEN NoPend
        ELSE [kind |-> "upd", tbl |-> tbl, loc |-> loc, row |-> kept, base |-> base, bad |-> bad]

\* Assigning the attributes of a loaded row stages an UPDATE only when a
\* value differs; session.add(row) stages an INSERT.
StageUpdate(T, t, tbl, loc, row, bad) ==
    LET base == RowAt(T, t.D, tbl, loc)
    IN  IF bad = "" /\ row = base THEN NoPend
        ELSE [kind |-> "upd", tbl |-> tbl, loc |-> loc, row |-> row, base |-> base, bad |-> bad]

StageInsert(tbl, row, bad) ==
    [kind |-> "ins", tbl |-> tbl, loc |-> <<"none", 0>>, row |-> row, base |-> <<>>, bad |-> bad]

\* db.session.commit() applied to the committed tables.
Apply(table, W) ==
    [i \in 1..Len(table) |-> IF i \in DOMAIN W.upd THEN W.upd[i] ELSE table[i]] \o W.ins

-----------------------------------------------------------------------------
(* submit_checkin, statement by statement.  A request t carries its        *)
(* position pc, the caller's client id, the body data, the clock readings  *)
(* today and now, the parsed date, the index k of the next item of         *)
(* category_responses followed by goal_completions, its session (D, pend)  *)
(* and its outcome.                                                        *)

NewRequest(c, data, today, now) ==
    [pc |-> "begin", client |-> c, data |-> data, today |-> today, now |-> now,
     date |-> 0, existing |-> FALSE, k |-> 1, D |-> EmptyDelta, pend |-> NoPend,
     status |-> 0, error |-> ""]

Idle ==
    [pc |-> "idle", client |-> 0, data |-> <<>>, today |-> <<>>, now |-> "",
     date |-> 0, existing |-> FALSE, k |-> 1, D |-> EmptyDelta, pend |-> NoPend,
     status |-> 0, error |-> ""]

\* The DailyCheckin the request describes: data.get(...) of the six fields.
CheckinRow(t, date) ==
    [client_id |-> t.client, checkin_date |-> date, checkin_time |-> t.now,
     emotional_value |-> IntColumn(t.data.emotional_value).v,
     emotional_notes |-> t.data.emotional_notes,
     medication_value |-> IntColumn(t.data.medication_value).v,
     medication_notes |-> t.data.medication_notes,
     activity_value |-> IntColumn(t.data.activity_value).v,
     activity_notes |-> t.data.activity_notes]

CheckinBad(t) ==
    IF /\ IntColumn(t.data.emotional_value).ok
       /\ IntColumn(t.data.medication_value).ok
       /\ IntColumn(t.data.activity_value).ok
    THEN "" ELSE "value"

\* Parse the date, look the check-in up, update it or create it.
BeginCheckin(T, t) ==
    LET text == IF t.data.date = NULL THEN IsoFormat(t.today) ELSE t.data.date[1]
        pd   == ParseDate(text)
        existing == QueryFirst(T, t.D, "checkins",
                        LAMBDA r : r.client_id = t.client /\ r.checkin_date = pd.date)
        row  == CheckinRow(t, pd.date)
    IN  IF ~pd.ok THEN Fail(t, "date")
        ELSE [t EXCEPT !.pc = "items", !.date = pd.date,
                       !.existing = (existing[1] # "none"),
                       !.pend = IF existing[1] # "none"
                                THEN StageUpdate(T, t, "checkins", existing, row, CheckinBad(t))
                                ELSE StageInsert("checkins", row, CheckinBad(t))]

Items(t) ==
    [i \in 1..Len(t.data.category_responses) |->
        [tbl |-> "responses", key |-> t.data.category_responses[i].key,
         value |-> t.data.category_responses[i].value]]
    \o
    [i \in 1..Len(t.data.goal_completions) |->
        [tbl |-> "completions", key |-> t.data.goal_completions[i].key,
         value |-> t.data.goal_completions[i].value]]

\* One pass of the "Save category responses" loop: int(cat_id), the query
\* (which flushes what is staged), then update or add.
SaveCategoryResponse(T, t, it) ==
    LET id == PyInt(it.key)
        f  == Flush(T, t)
        existing_response == QueryFirst(T, f.D, "responses",
                        LAMBDA r : /\ r.client_id = t.client
                                   /\ r.category_id = id.v
                                   /\ r.response_date = t.date)
        val == IntColumn(it.value)
        bad == IF val.ok THEN "" ELSE "value"
    IN  IF ~id.ok THEN Fail(t, "key")
        ELSE IF f.pc = "done" THEN f
        ELSE IF existing_response[1] # "none"
        THEN [f EXCEPT !.k = @ + 1,
                       !.pend = StageUpdate(T, f, "responses", existing_response,
                                   [RowAt(T, f.D, "responses", existing_response) EXCEPT !.value = val.v],
                                   bad)]
        ELSE [f EXCEPT !.k = @ + 1,
                       !.pend = StageInsert("responses",
                                   [client_id |-> t.client, category_id |-> id.v,
                                    response_date |-> t.date, value |-> val.v], bad)]

\* One pass of the "Save goal completions" loop.
SaveGoalCompletion(T, t, it) ==
    LET id == PyInt(it.key)
        f  == Flush(T, t)
        existing_completion == QueryFirst(T, f.D, "completions",
                        LAMBDA r : r.goal_id = id.v /\ r.completion_date = t.date)
        val == BoolColumn(it.value)
        bad == IF val.ok THEN "" ELSE "value"
    IN  IF ~id.ok THEN Fail(t, "key")
        ELSE IF f.pc = "done" THEN f
        ELSE IF existing_completion[1] # "none"
        THEN [f EXCEPT !.k = @ + 1,
                       !.pend = StageUpdate(T, f, "completions", existing_completion,
                                   [RowAt(T, f.D, "completions", existing_completion) EXCEPT !.completed = val.v],
                                   bad)]
        ELSE [f EXCEPT !.k = @ + 1,
                       !.pend = StageInsert("completions",
                                   [goal_id |-> id.v, completion_date |-> t.date,
                                    completed |-> val.v], bad)]

\* db.session.commit(): flush what is staged, then make the session's
\* writes the committed state; any exception rolls the session back.
CommitCheckin(T, t) ==
    LET f == Flush(T, t)
    IN  IF f.pc = "done" THEN f ELSE [f EXCEPT !.pc = "done", !.status = 200]

\* The next statement of the request.
StepCheckin(T, t) ==
    IF t.pc = "begin" THEN BeginCheckin(T, t)
    ELSE IF t.pc = "items" /\ t.k <= Len(Items(t))
    THEN IF Items(t)[t.k].tbl = "responses"
         THEN SaveCategoryResponse(T, t, Items(t)[t.k])
         ELSE SaveGoalCompletion(T, t, Items(t)[t.k])
    ELSE CommitCheckin(T, t)

\* The request run from its first statement to its response with no other
\* request in between.
RECURSIVE RunCheckin(_, _)
RunCheckin(T, t) == IF t.pc = "done" THEN t ELSE RunCheckin(T, StepCheckin(T, t))

-----------------------------------------------------------------------------
(* The requests a client sends to /api/client/checkin.                     *)

Txt(s) == Some(s)

KV(key, value) == [key |-> key, value |-> value]

CheckinData(date, ev, en, mv, mn, av, an, cats, gls) ==
    [date |-> date,
     emotional_value |-> ev, emotional_notes |-> en,
     medication_value |-> mv, medication_notes |-> mn,
     activity_value |-> av, activity_notes |-> an,
     category_responses |-> cats, goal_completions |-> gls]

Jan1 == Some(<<"2", "0", "2", "4", "-", "0", "1", "-", "0", "1">>)
Jan2 == Some(<<"2", "0", "2", "4", "-", "0", "1", "-", "0", "2">>)
Jan2Short == Some(<<"2", "0", "2", "4", "-", "1", "-", "2">>)
Feb30 == Some(<<"2", "0", "2", "4", "-", "0", "2", "-", "3", "0">>)

CheckinRequests ==
    { \* every field given, one category, the caller's goal or the other client's
      CheckinData(NULL, JInt(4), Txt("calm"), JInt(5), Txt("taken"), JInt(3), Txt("walk"),
                  <<KV(<<"1">>, JInt(3))>>, <<KV(<<"1">>, JBool(1))>>),
      CheckinData(Jan1, JInt(2), NULL, JNull, NULL, JNull, NULL,
                  <<KV(<<"1">>, JInt(5)), KV(<<"0", "1">>, JInt(2))>>, <<KV(<<"2">>, JBool(0))>>),
      CheckinData(Jan2, JInt(4), Txt("calm"), JInt(0), NULL, JInt(5), Txt("run"),
                  <<>>, <<KV(<<"1">>, JBool(0)), KV(<<"0", "1">>, JBool(1))>>),
      CheckinData(Jan2Short, JInt(1), Txt("low"), JInt(5), NULL, JNull, NULL,
                  <<KV(<<"2">>, JInt(4))>>, <<>>),
      \* requests that fail
      CheckinData(Feb30, JInt(4), NULL, JInt(5), NULL, JInt(3), NULL,
                  <<KV(<<"1">>, JInt(3))>>, <<>>),
      CheckinData(Jan1, JInt(5), Txt("fine"), JInt(5), NULL, JInt(5), NULL,
                  <<KV(<<"2">>, JInt(1)), KV(<<"x">>, JInt(1))>>, <<>>),
      CheckinData(Jan1, JInt(3), NULL, JInt(3), NULL, JInt(3), NULL,
                  <<KV(<<"1">>, JText)>>, <<KV(<<"1">>, JBool(1))>>),
      CheckinData(Jan1, JInt(1), NULL, JInt(1), NULL, JInt(1), NULL,
                  <<KV(<<"2">>, JInt(2))>>, <<KV(<<"1">>, JBool(1)), KV(<<"g">>, JBool(1))>>),
      CheckinData(Jan1, JInt(1), NULL, JInt(1), NULL, JInt(1), NULL,
                  <<>>, <<KV(<<"2">>, JText)>>),
      CheckinData(Jan2, JText, NULL, JInt(1), NULL, JInt(1), NULL,
                  <<KV(<<"1">>, JInt(2))>>, <<>>),
      CheckinData(Jan2, JInt(2), NULL, JInt(1), NULL, JInt(1), NULL,
                  <<KV(<<"1">>, JInt(2))>>, <<KV(<<"9">>, JBool(1))>>),
      CheckinData(Jan2, JInt(2), NULL, JInt(1), NULL, JInt(1), NULL,
                  <<KV(<<"1">>, JNull)>>, <<>>) }

Today == <<2024, 1, 1>>
Times == {"09:00", "21:30"}

MaxRequests == 3

\* Two therapists, each with one client, each client with one weekly goal.
SeededUsers ==
    << NewUser(<<"t1">>, "therapist"), NewUser(<<"t2">>, "therapist"),
       NewUser(<<"c1">>, "client"), NewUser(<<"c2">>, "client") >>
SeededTherapists ==
    << [user_id |-> 1, license_number |-> <<"L", 1>>, name |-> "t1"],
       [user_id |-> 2, license_number |-> <<"L", 2>>, name |-> "t2"] >>
SeededClients ==
    << [user_id |-> 3, client_serial |-> Serial(1), therapist_id |-> Some(1)],
       [user_id |-> 4, client_serial |-> Serial(2), therapist_id |-> Some(2)] >>
SeededGoals ==
    << [client_id |-> 1, therapist_id |-> 1, goal_text |-> "walk",
        week_start |-> Ordinal(2024, 1, 1)],
       [client_id |-> 2, therapist_id |-> 2, goal_text |-> "read",
        week_start |-> Ordinal(2024, 1, 1)] >>

\* Both clients track the three default categories.
SeededPlans ==
    << [client_id |-> 1, category_id |-> 1], [client_id |-> 1, category_id |-> 2],
       [client_id |-> 1, category_id |-> 3], [client_id |-> 2, category_id |-> 1],
       [client_id |-> 2, category_id |-> 2], [client_id |-> 2, category_id |-> 3] >>

InitCheckin ==
    /\ users = SeededUsers /\ therapists = SeededTherapists
    /\ clients = SeededClients /\ goals = SeededGoals
    /\ notes = <<>> /\ plans = SeededPlans
    /\ checkins = <<>> /\ responses = <<>> /\ completions = <<>>
    /\ reply = NoReply /\ tx = <<>> /\ served = 0
    /\ wk_in = <<>> /\ wk_out = [state |-> "none", r |-> NoWeek] /\ rpt = NoReport /\ gen = NoGen
    /\ categories = BuiltInCategories /\ initialized = TRUE

\* POST /api/client/checkin by client c, served with no other request in
\* between.
SubmitCheckin(c, data, today, now) ==
    LET t == RunCheckin(Tables, NewRequest(c, data, today, now))
    IN  /\ served < MaxRequests
        /\ served' = served + 1
        /\ checkins' = Apply(checkins, t.D.checkins)
        /\ responses' = Apply(responses, t.D.responses)
        /\ completions' = Apply(completions, t.D.completions)
        /\ reply' = [op |-> "submit_checkin", who |-> c, status |-> t.status, error |-> t.error,
                     data |-> data, date |-> t.date, existing |-> t.existing]
        /\ UNCHANGED <<users, therapists, clients, goals, notes, plans, tx, wk_in, wk_out, rpt, gen, categories, initialized>>

NextCheckin ==
    \E c \in 1..Len(clients), data \in CheckinRequests, now \in Times :
        SubmitCheckin(c, data, Today, now)

SpecCheckin == InitCheckin /\ [][NextCheckin]_vars

-----------------------------------------------------------------------------
(* Specification SpecConcurrent: two workers serve submit_checkin requests *)
(* at the same time, each in its own session and transaction.  The store   *)
(* is the configured PostgreSQL database at its default isolation level:   *)
(* a statement reads what is committed when it runs, a write to a row      *)
(* another open transaction has written waits for that transaction to end, *)
(* and so does an insert of a key another open transaction has inserted    *)
(* under a unique constraint.  The requests below name at most one row per *)
(* table, so the waits cannot form a cycle.                                *)

Workers == {"w1", "w2"}

MaxConcurrentRequests == 3

ConcurrentRequests ==
    { CheckinData(Jan1, JInt(4), Txt("calm"), JInt(5), NULL, JInt(3), NULL, <<>>, <<>>),
      CheckinData(Jan1, JInt(4), Txt("calm"), JInt(5), NULL, JInt(3), NULL,
                  <<KV(<<"1">>, JInt(3))>>, <<KV(<<"1">>, JBool(1))>>),
      CheckinData(NULL, JInt(2), NULL, JNull, NULL, JNull, NULL,
                  <<KV(<<"1">>, JInt(5))>>, <<>>),
      CheckinData(Jan1, JInt(4), Txt("calm"), JInt(5), NULL, JInt(3), NULL,
                  <<KV(<<"x">>, JInt(3))>>, <<>>) }

InFlight(w) == tx[w].pc = "items"

\* The staged change of worker w will be sent to the store by its next
\* statement (it is not refused before it reaches a row).
SendsWrite(w) ==
    LET t == tx[w]
    IN  /\ t.pend.kind # "none" /\ t.pend.bad = "" /\ NotNullOk(t.pend.tbl, t.pend.row)
        /\ (t.k <= Len(Items(t)) => PyInt(Items(t)[t.k].key).ok)

\* Worker w's staged change has to wait for another open transaction.
Blocked(w) ==
    LET pd == tx[w].pend
    IN  /\ InFlight(w) /\ SendsWrite(w)
        /\ \E o \in Workers \ {w} :
              /\ InFlight(o)
              /\ \/ /\ pd.kind = "upd" /\ pd.loc[1] = "row"
                    /\ pd.loc[2] \in DOMAIN tx[o].D[pd.tbl].upd
                 \/ /\ pd.kind = "ins" /\ UniqueKey(pd.tbl, pd.row) # NULL
                    /\ \E k \in 1..Len(tx[o].D[pd.tbl].ins) :
                          UniqueKey(pd.tbl, tx[o].D[pd.tbl].ins[k]) = UniqueKey(pd.tbl, pd.row)

InitConcurrent ==
    /\ users = SeededUsers /\ therapists = SeededTherapists
    /\ clients = SeededClients /\ goals = SeededGoals
    /\ notes = <<>> /\ plans = SeededPlans
    /\ checkins = <<>> /\ responses = <<>> /\ completions = <<>>
    /\ reply = NoReply /\ tx = [w \in Workers |-> Idle] /\ served = 0
    /\ wk_in = <<>> /\ wk_out = [state |-> "none", r |-> NoWeek] /\ rpt = NoReport /\ gen = NoGen
    /\ categories = BuiltInCategories /\ initialized = TRUE

\* A worker takes a request and runs it up to its first query: the date is
\* parsed, the check-in looked up and the update or insert staged.
TxBegin(w, c, data, now) ==
    /\ tx[w].pc \in {"idle", "done"}
    /\ served < MaxConcurrentRequests
    /\ served' = served + 1
    /\ tx' = [tx EXCEPT ![w] = BeginCheckin(Tables, NewRequest(c, data, Today, now))]
    /\ UNCHANGED <<store, reply, wk_in, wk_out, rpt, gen, categories, initialized>>

\* One pass of a loop: the staged change is flushed, the next row is
\* looked up and its update or insert staged.
TxSaveItem(w) ==
    /\ InFlight(w) /\ tx[w].k <= Len(Items(tx[w]))
    /\ ~Blocked(w)
    /\ tx' = [tx EXCEPT ![w] = StepCheckin(Tables, tx[w])]
    /\ UNCHANGED <<store, reply, served, wk_in, wk_out, rpt, gen, categories, initialized>>

\* db.session.commit(), or the rollback when its flush fails.
TxCommit(w) ==
    /\ InFlight(w) /\ tx[w].k > Len(Items(tx[w]))
    /\ ~Blocked(w)
    /\ LET t == StepCheckin(Tables, tx[w])
       IN  /\ checkins' = Apply(checkins, t.D.checkins)
           /\ responses' = Apply(responses, t.D.responses)
           /\ completions' = Apply(completions, t.D.completions)
           /\ tx' = [tx EXCEPT ![w] = [t EXCEPT !.D = EmptyDelta]]
    /\ UNCHANGED <<users, therapists, clients, goals, notes, plans, reply, served, wk_in, wk_out, rpt, gen, categories, initialized>>

NextConcurrent ==
    \E w \in Workers :
        \/ \E c \in 1..Len(clients), data \in ConcurrentRequests, now \in Times :
              TxBegin(w, c, data, now)
        \/ TxSaveItem(w)
        \/ TxCommit(w)

SpecConcurrent == InitConcurrent /\ [][NextConcurrent]_vars

-----------------------------------------------------------------------------
(* Claims about submit_checkin served one request at a time (SpecCheckin). *)

\* What a request's JSON value is once stored in a nullable integer column.
Stored(j) == IF j.t = "int" THEN <<j.n>> ELSE <<>>

SixFields(row) ==
    <<row.emotional_value, row.emotional_notes, row.medication_value,
      row.medication_notes, row.activity_value, row.activity_notes>>

SubmittedFields(data) ==
    <<Stored(data.emotional_value), data.emotional_notes, Stored(data.medication_value),
      data.medication_notes, Stored(data.activity_value), data.activity_notes>>

CheckinsOf(c, d) == {i \in 1..Len(checkins) : checkins[i].client_id = c /\ checkins[i].checkin_date = d}

Submitted == reply.op = "submit_checkin" /\ reply.status = 200

(* C1.  After submit_checkin succeeds for (client, date), also when a      *)
(* check-in for that key was stored by an earlier submission, exactly one  *)
(* DailyCheckin row holds that key and its six value/notes fields are      *)
(* those of the submission served last.                                    *)
C1_SecondSubmissionWins ==
    Submitted =>
        /\ Cardinality(CheckinsOf(reply.who, reply.date)) = 1
        /\ \A i \in CheckinsOf(reply.who, reply.date) :
              SixFields(checkins[i]) = SubmittedFields(reply.data)

\* A second submission for a stored key, with other field values, succeeded.
C1_Witness ==
    /\ Submitted /\ reply.existing /\ served >= 2
    /\ reply.data.medication_value.t = "null"
    /\ \E i \in CheckinsOf(reply.who, reply.date) : checkins[i].medication_value = NULL

(* C2.  Served one at a time, submit_checkin keeps at most one             *)
(* DailyCheckin per (client, date), one CategoryResponse per (client,      *)
(* category, date) and one GoalCompletion per (goal, date).                *)
C2_OneRowPerKey ==
    /\ \A i, j \in 1..Len(checkins) :
          (checkins[i].client_id = checkins[j].client_id
              /\ checkins[i].checkin_date = checkins[j].checkin_date) => i = j
    /\ \A i, j \in 1..Len(responses) :
          (responses[i].client_id = responses[j].client_id
              /\ responses[i].category_id = responses[j].category_id
              /\ responses[i].response_date = responses[j].response_date) => i = j
    /\ \A i, j \in 1..Len(completions) :
          (completions[i].goal_id = completions[j].goal_id
              /\ completions[i].completion_date = completions[j].completion_date) => i = j

\* A submission naming one category under two spellings ("1" and "01")
\* succeeded on a date for which rows were already stored.
C2_Witness ==
    /\ Submitted /\ reply.existing
    /\ Len(reply.data.category_responses) = 2
    /\ PyInt(reply.data.category_responses[1].key).v = PyInt(reply.data.category_responses[2].key).v
    /\ \E i \in 1..Len(responses) :
          /\ responses[i].client_id = reply.who /\ responses[i].response_date = reply.date
          /\ responses[i].value = Stored(reply.data.category_responses[2].value)

(* C5.  A submit_checkin call by client A never creates or changes a row   *)
(* of another client B: no DailyCheckin or CategoryResponse of B, and no   *)
(* GoalCompletion of a WeeklyGoal whose client is B.                       *)
C5_NoWriteToAnotherClientsRows ==
    [][ (served' # served /\ reply'.op = "submit_checkin") =>
          /\ \A i \in 1..Len(checkins') :
                checkins'[i].client_id # reply'.who =>
                    (i <= Len(checkins) /\ checkins'[i] = checkins[i])
          /\ \A i \in 1..Len(responses') :
                responses'[i].client_id # reply'.who =>
                    (i <= Len(responses) /\ responses'[i] = responses[i])
          /\ \A i \in 1..Len(completions') :
                goals[completions'[i].goal_id].client_id # reply'.who =>
                    (i <= Len(completions) /\ completions'[i] = completions[i]) ]_vars

(* C9.  A submit_checkin call that fails answers with one error and leaves *)
(* the committed DailyCheckin, CategoryResponse and GoalCompletion rows as *)
(* they were, also when rows of the same submission were staged before the *)
(* failing item.                                                           *)
C9_FailedSubmissionChangesNothing ==
    [][ (served' # served /\ reply'.op = "submit_checkin" /\ reply'.status # 200) =>
          /\ reply'.status = 500 /\ reply'.error # ""
          /\ checkins' = checkins /\ responses' = responses /\ completions' = completions ]_vars

\* A submission failed on its second category key, after the check-in and
\* the first category response were staged.
C9_Witness ==
    /\ reply.op = "submit_checkin" /\ reply.status = 500 /\ reply.error = "key"
    /\ Len(reply.data.category_responses) = 2
    /\ PyInt(reply.data.category_responses[1].key).ok
    /\ ~PyInt(reply.data.category_responses[2].key).ok

-----------------------------------------------------------------------------
(* Claims about concurrent submissions (SpecConcurrent).                   *)

(* C3.  However two concurrent submit_checkin requests interleave, the     *)
(* committed store never holds two DailyCheckin rows for one (client,      *)
(* date), two CategoryResponse rows for one (client, category, date) or    *)
(* two GoalCompletion rows for one (goal, date).                           *)
C3_NoDuplicatesUnderConcurrency ==
    /\ \A c \in 1..Len(clients), i, j \in 1..Len(checkins) :
          (checkins[i].client_id = c /\ checkins[j].client_id = c
              /\ checkins[i].checkin_date = checkins[j].checkin_date) => i = j
    /\ \A g \in 1..Len(goals), i, j \in 1..Len(completions) :
          (completions[i].goal_id = g /\ completions[j].goal_id = g
              /\ completions[i].completion_date = completions[j].completion_date) => i = j
    /\ \A c \in 1..Len(clients), i, j \in 1..Len(responses) :
          (responses[i].client_id = c /\ responses[j].client_id = c
              /\ responses[i].category_id = responses[j].category_id
              /\ responses[i].response_date = responses[j].response_date) => i = j

(* C4.  An insert of submit_checkin that violates a uniqueness constraint  *)
(* makes the submission update the existing row and succeed; the conflict  *)
(* is never returned to the caller as a failure.                           *)
C4_UniqueConflictIsNotAFailure ==
    \A w \in Workers : tx[w].pc = "done" => ~(tx[w].status = 500 /\ tx[w].error = "unique")

-----------------------------------------------------------------------------
(* The therapist endpoints.  Each handler is an operator from the request  *)
(* and the committed store to its outcome: the status and error body of    *)
(* the response and the rows the commit appends to each table (none when   *)
(* the handler returns early or rolls back).                               *)

Therapists == {1, 2}

\* is_default of the seeded tracking categories, by id.
CategoryIsDefault == <<TRUE, TRUE, TRUE, FALSE, FALSE, FALSE>>

\* The ids up to n whose flag is set, in id order.
RECURSIVE FlaggedIds(_, _)
FlaggedIds(flags, n) ==
    IF n = 0 THEN <<>>
    ELSE FlaggedIds(flags, n - 1) \o (IF flags[n] THEN <<n>> ELSE <<>>)

\* Every category id, whatever its flag.
AllCategoryIds == [i \in 1..NumCategories |-> i]

\* TrackingCategory.query.filter_by(is_default=True).all()
DefaultCategoryIds == FlaggedIds(CategoryIsDefault, NumCategories)

NoRows ==
    [users |-> <<>>, therapists |-> <<>>, clients |-> <<>>, plans |-> <<>>, goals |-> <<>>,
     notes |-> <<>>]

\* The outcome of a handler: the response (its status, its error text,
\* whether its body says 'success': True), the rows committed, the tables
\* queried on the way in the order of the queries, and what became of the
\* outbound email, if one was due.
Outcome(status, error, rows) ==
    [status |-> status, error |-> error, rows |-> rows, success |-> (status = 200),
     reads |-> <<>>, transport |-> "none", sends |-> 0]

\* The handler queried these tables and then went on to the outcome.
Reading(tables, out) == [out EXCEPT !.reads = tables \o @]

\* A lookup by id alone, any therapist's client.
FindClientById(t, client_id) ==
    IF client_id \in 1..Len(clients) THEN client_id ELSE 0

\* Client.query.filter_by(id=client_id, therapist_id=therapist.id).first():
\* the id of the row, 0 for None.
FindOwnClient(t, client_id) ==
    IF client_id \in 1..Len(clients) /\ clients[client_id].therapist_id = Some(t)
    THEN client_id ELSE 0

ClientNotFound == Outcome(404, "Client not found", NoRows)

\* date.today() - timedelta(days=date.today().weekday())
MondayOf(today) == today - Weekday(today)

\* GET /api/therapist/client/<int:client_id>
GetClientDetails(t, client_id) ==
    Reading(<<"clients">>,
        IF FindOwnClient(t, client_id) = 0 THEN ClientNotFound
        ELSE Reading(<<"plans", "goals", "checkins", "notes">>, Outcome(200, "", NoRows)))

\* POST /api/therapist/add-goal.  goal_text is NULL when the key is absent;
\* week_start_str is empty when the key is absent or the text is empty.
AddWeeklyGoal(t, client_id, goal_text, week_start_str, today) ==
    LET parsed == ParseDate(week_start_str)
        week_start == IF week_start_str # <<>> THEN parsed.date ELSE MondayOf(today)
    IN  Reading(<<"clients">>,
            IF FindOwnClient(t, client_id) = 0 THEN ClientNotFound
            ELSE IF week_start_str # <<>> /\ ~parsed.ok THEN Outcome(500, "date", NoRows)
            ELSE IF goal_text = NULL THEN Outcome(500, "not null", NoRows)
            ELSE Outcome(200, "",
                    [NoRows EXCEPT !.goals =
                        << [client_id |-> client_id, therapist_id |-> t,
                            goal_text |-> goal_text[1], week_start |-> week_start] >>]))

\* POST /api/therapist/add-note
AddTherapistNote(t, client_id, content, is_mission, note_type, today) ==
    Reading(<<"clients">>,
        IF FindOwnClient(t, client_id) = 0 THEN ClientNotFound
        ELSE IF content = NULL THEN Outcome(500, "not null", NoRows)
        ELSE Outcome(200, "",
                [NoRows EXCEPT !.notes =
                    << [client_id |-> client_id, therapist_id |-> t, note_type |-> note_type,
                        content |-> content[1], is_mission |-> is_mission,
                        mission_completed |-> FALSE, created_at |-> today] >>]))

\* The tables create_weekly_report_excel queries, in order.
ReportReads == <<"checkins", "goals", "completions", "notes", "plans", "responses">>

\* GET /api/reports/generate/<int:client_id>/<week>: the client is looked
\* up, then the week is parsed; any exception is a 500 with its text.
GenerateReport(t, client_id, week) ==
    Reading(<<"clients">>,
        IF FindOwnClient(t, client_id) = 0 THEN ClientNotFound
        ELSE IF ~ParseWeek(week).ok THEN Outcome(500, "week format", NoRows)
        ELSE IF ~ResolveWeek(week).ok THEN Outcome(500, "year out of range", NoRows)
        ELSE Reading(ReportReads, Outcome(200, "", NoRows)))

\* "not x" of a JSON value: null, 0 and false are falsy (JText is not empty).
Falsy(j) == j.t = "null" \/ (j.t \in {"int", "bool"} /\ j.n = 0)

\* int(x) of a JSON value: ValueError on a text that is no number,
\* TypeError on null.
JsonInt(j) ==
    IF j.t \in {"int", "bool"} THEN [ok |-> TRUE, v |-> j.n] ELSE [ok |-> FALSE, v |-> 0]

\* The three conditions of the outbound mail: SYSTEM_EMAIL is not set; the
\* SMTP server accepts the message; connecting, logging in or sending raises.
MailStates == {"unconfigured", "delivers", "fails"}

\* The response once the email text is composed: the text for manual
\* sending when mail is not configured; else one SMTP session, and when it
\* raises, a body with 'success': True, the text and an 'error' entry.
SendReport(mail) ==
    IF mail = "unconfigured" THEN Outcome(200, "", NoRows)
    ELSE IF mail = "delivers"
    THEN [Reading(ReportReads, Outcome(200, "", NoRows))
             EXCEPT !.transport = "sent", !.sends = 1]
    ELSE [Reading(ReportReads, Outcome(200, "Failed to send email", NoRows))
             EXCEPT !.transport = "failed", !.sends = 1]

\* POST /api/therapist/email-report
EmailTherapyReport(t, client_id, week, mail) ==
    IF Falsy(client_id) THEN Outcome(400, "Client ID is required", NoRows)
    ELSE IF week = <<>> THEN Outcome(400, "Week is required", NoRows)
    ELSE IF ~JsonInt(client_id).ok THEN Outcome(400, "Invalid client ID", NoRows)
    ELSE Reading(<<"clients">>,
            IF FindOwnClient(t, JsonInt(client_id).v) = 0 THEN ClientNotFound
            ELSE IF ~ParseWeek(week).ok THEN Outcome(400, "Invalid week format", NoRows)
            ELSE IF ~ResolveWeek(week).ok THEN Outcome(500, "year out of range", NoRows)
            ELSE Reading(<<"checkins">>, SendReport(mail)))

\* The rows a failed request leaves when the flushed ones are kept.
KeepFlushed(flushed) == flushed

\* except Exception: db.session.rollback() - the rows the request has
\* flushed so far are discarded with the pending ones.
Rollback(flushed) == NoRows

\* generate_client_serial(): a random serial is drawn until one is unused.
SerialInUse(serial) == \E i \in 1..Len(clients) : clients[i].client_serial = serial

\* POST /api/therapist/create-client.  The user and the client are flushed,
\* the plans, goals and welcome note are written by the commit; a row the
\* store refuses rolls all of them back.
CreateClient(t, email, category_ids, initial_goals, serial, today) ==
    LET user_id   == Len(users) + 1
        client_id == Len(clients) + 1
        cats      == IF category_ids = <<>> THEN DefaultCategoryIds ELSE category_ids
        rows ==
            [users   |-> << NewUser(email[1], "client") >>,
             therapists |-> <<>>,
             clients |-> << [user_id |-> user_id, client_serial |-> serial,
                             therapist_id |-> Some(t)] >>,
             plans   |-> [i \in 1..Len(cats) |->
                             [client_id |-> client_id, category_id |-> cats[i]]],
             goals   |-> [i \in 1..Len(initial_goals) |->
                             [client_id |-> client_id, therapist_id |-> t,
                              goal_text |-> initial_goals[i][1],
                              week_start |-> MondayOf(today)]],
             notes   |-> << [client_id |-> client_id, therapist_id |-> t,
                             note_type |-> "welcome", content |-> "welcome",
                             is_mission |-> FALSE, mission_completed |-> FALSE,
                             created_at |-> today] >>]
        \* the user and the client, flushed before the rest is added
        flushed == [NoRows EXCEPT !.users = rows.users, !.clients = rows.clients]
    IN  Reading(<<"users">>,
            IF email # NULL /\ \E i \in 1..Len(users) : users[i].email = email[1]
            THEN Outcome(400, "Email already registered", NoRows)
            ELSE IF email = NULL THEN Outcome(500, "not null", Rollback(NoRows))
            ELSE IF \E i \in 1..Len(cats) : cats[i] \notin CategoryIds
                 THEN Reading(<<"clients">>, Outcome(500, "foreign key", Rollback(flushed)))
            ELSE IF \E i \in 1..Len(initial_goals) : initial_goals[i] = NULL
                 THEN Reading(<<"clients">>, Outcome(500, "not null", Rollback(flushed)))
            ELSE Reading(<<"clients">>, Outcome(200, "", rows)))

-----------------------------------------------------------------------------
(* Specification SpecTherapist: two therapists work on the seeded store,   *)
(* one request at a time.                                                  *)

MaxTherapistRequests == 2

Jan3 == <<"2", "0", "2", "4", "-", "0", "1", "-", "0", "3">>
Week1 == <<"2", "0", "2", "4", "-", "W", "1">>
BadWeek == <<"2", "0", "2", "4", "-", "W", "x">>
YearZero == <<"0", "-", "W", "1">>

\* A Monday and a Wednesday.
Todays == {Ordinal(2024, 1, 1), Ordinal(2024, 1, 3)}

Serials == {Serial(1), Serial(3), Serial(4)}

\* Every id of a stored client and the first id that names none.
ClientIds == 1..(Len(clients) + 1)

CreateClientRequests ==
    { [email |-> Some(<<"c3">>), tracking_categories |-> <<>>, initial_goals |-> <<Some("walk")>>],
      [email |-> Some(<<"c3">>), tracking_categories |-> <<4, 5>>, initial_goals |-> <<>>],
      [email |-> Some(<<"c1">>), tracking_categories |-> <<>>, initial_goals |-> <<>>],
      [email |-> Some(<<"c4">>), tracking_categories |-> <<9>>, initial_goals |-> <<Some("walk")>>],
      [email |-> Some(<<"c4">>), tracking_categories |-> <<1>>, initial_goals |-> <<Some("walk"), NULL>>],
      [email |-> NULL, tracking_categories |-> <<>>, initial_goals |-> <<>>] }

AddGoalRequests ==
    { [goal_text |-> Some("walk"), week_start |-> <<>>],
      [goal_text |-> Some("read"), week_start |-> Jan1[1]],
      [goal_text |-> Some("read"), week_start |-> Jan3],
      [goal_text |-> Some("read"), week_start |-> Feb30[1]],
      [goal_text |-> NULL, week_start |-> <<>>] }

AddNoteRequests ==
    { [content |-> Some("note"), is_mission |-> FALSE, note_type |-> "general"],
      [content |-> Some("task"), is_mission |-> TRUE, note_type |-> "mission"],
      [content |-> NULL, is_mission |-> FALSE, note_type |-> "general"] }

ReportWeeks == {Week1, BadWeek, YearZero}

EmailClientIds == {JInt(k) : k \in 0..3} \cup {JNull, JText}

InitTherapist ==
    /\ users = SeededUsers /\ therapists = SeededTherapists
    /\ clients = SeededClients /\ goals = SeededGoals
    /\ notes = <<>> /\ plans = SeededPlans
    /\ checkins = <<>> /\ responses = <<>> /\ completions = <<>>
    /\ reply = NoReply /\ tx = <<>> /\ served = 0
    /\ wk_in = <<>> /\ wk_out = [state |-> "none", r |-> NoWeek] /\ rpt = NoReport /\ gen = NoGen
    /\ categories = BuiltInCategories /\ initialized = TRUE

\* The response of a therapist endpoint and the commit of its rows.
Serve(op, t, client_id, out) ==
    /\ served < MaxTherapistRequests
    /\ served' = served + 1
    /\ users' = users \o out.rows.users
    /\ therapists' = therapists \o out.rows.therapists
    /\ clients' = clients \o out.rows.clients
    /\ plans' = plans \o out.rows.plans
    /\ goals' = goals \o out.rows.goals
    /\ notes' = notes \o out.rows.notes
    /\ reply' = [op |-> op, who |-> t, status |-> out.status, error |-> out.error,
                 client_id |-> client_id, success |-> out.success, reads |-> out.reads,
                 transport |-> out.transport, sends |-> out.sends]
    /\ UNCHANGED <<checkins, responses, completions, tx, wk_in, wk_out, rpt, gen, categories, initialized>>

create_client(t) ==
    \E r \in CreateClientRequests, serial \in Serials, today \in Todays :
        /\ ~SerialInUse(serial)
        /\ Serve("create_client", t, 0,
                 CreateClient(t, r.email, r.tracking_categories, r.initial_goals, serial, today))

add_weekly_goal(t) ==
    \E client_id \in ClientIds, r \in AddGoalRequests, today \in Todays :
        Serve("add_weekly_goal", t, client_id,
              AddWeeklyGoal(t, client_id, r.goal_text, r.week_start, today))

add_therapist_note(t) ==
    \E client_id \in ClientIds, r \in AddNoteRequests, today \in Todays :
        Serve("add_therapist_note", t, client_id,
              AddTherapistNote(t, client_id, r.content, r.is_mission, r.note_type, today))

get_client_details(t) ==
    \E client_id \in ClientIds :
        Serve("get_client_details", t, client_id, GetClientDetails(t, client_id))

generate_report(t) ==
    \E client_id \in ClientIds, week \in ReportWeeks :
        Serve("generate_report", t, client_id, GenerateReport(t, client_id, week))

email_therapy_report(t) ==
    \E client_id \in EmailClientIds, week \in ReportWeeks \cup {<<>>}, mail \in MailStates :
        LET out == EmailTherapyReport(t, client_id, week, mail)
        IN  Serve("email_therapy_report", t, JsonInt(client_id).v, out)

NextTherapist ==
    \E t \in Therapists :
        \/ create_client(t)
        \/ add_weekly_goal(t)
        \/ add_therapist_note(t)
        \/ get_client_details(t)
        \/ generate_report(t)
        \/ email_therapy_report(t)

SpecTherapist == InitTherapist /\ [][NextTherapist]_vars

-----------------------------------------------------------------------------
(* C6.  For every therapist endpoint that takes a client id                *)
(* (get_client_details, add_weekly_goal, add_therapist_note,               *)
(* generate_report, email_therapy_report) and every request body, the      *)
(* response to a request naming a client owned by another therapist has    *)
(* the same status and the same error body as the response to the same     *)
(* request naming a client id that does not exist.  Client ids are primary *)
(* keys, hence positive.                                                   *)

OwnedByAnother(t, k) == k \in 1..Len(clients) /\ clients[k].therapist_id # Some(t)
Nonexistent(k) == k >= 1 /\ k \notin 1..Len(clients)

Response(out) == <<out.status, out.error>>

C6_ForeignClientLooksNonexistent ==
    \A t \in Therapists :
        \A k1 \in 1..Len(clients), k2 \in 1..(Len(clients) + 2) :
            (OwnedByAnother(t, k1) /\ Nonexistent(k2)) =>
                /\ Response(GetClientDetails(t, k1)) = Response(GetClientDetails(t, k2))
                /\ \A r \in AddGoalRequests, today \in Todays :
                      Response(AddWeeklyGoal(t, k1, r.goal_text, r.week_start, today))
                          = Response(AddWeeklyGoal(t, k2, r.goal_text, r.week_start, today))
                /\ \A r \in AddNoteRequests, today \in Todays :
                      Response(AddTherapistNote(t, k1, r.content, r.is_mission, r.note_type, today))
                          = Response(AddTherapistNote(t, k2, r.content, r.is_mission, r.note_type, today))
                /\ \A week \in ReportWeeks :
                      Response(GenerateReport(t, k1, week)) = Response(GenerateReport(t, k2, week))
                /\ \A week \in ReportWeeks \cup {<<>>}, mail \in MailStates :
                      Response(EmailTherapyReport(t, JInt(k1), week, mail))
                          = Response(EmailTherapyReport(t, JInt(k2), week, mail))

\* A therapist has just asked for a client the other therapist created,
\* with a request that would have succeeded on a client of their own.
C6_Witness ==
    /\ reply.op = "add_weekly_goal" /\ reply.status = 404
    /\ reply.client_id = 3 /\ Len(clients) = 3
    /\ OwnedByAnother(reply.who, 3)

-----------------------------------------------------------------------------
(* C8.  After any sequence of create_client (with initial goals) and       *)
(* add_weekly_goal calls, including add_weekly_goal calls that supply      *)
(* their own week_start, every stored WeeklyGoal has a week_start that     *)
(* falls on a Monday.                                                      *)

C8_EveryGoalWeekStartIsMonday ==
    \A i \in 1..Len(goals) : Weekday(goals[i].week_start) = 0

-----------------------------------------------------------------------------
(* The weekly report: the "Daily Check-ins" grid and the "Weekly Summary"  *)
(* sheet of create_weekly_report_excel.  A rate or an average is kept as   *)
(* the exact quotient num/den; the float the code computes differs from it *)
(* by a few units in the last place, far less than the distance from any   *)
(* quotient of these small integers to a threshold it does not equal.      *)

RECURSIVE SeqSum(_)
SeqSum(s) == IF s = <<>> THEN 0 ELSE s[1] + SeqSum(Tail(s))

\* client.checkins.filter(checkin_date.between(week_start, week_end)) and,
\* The check-ins of the day, whichever client they belong to.
CheckinsOfAnyClientOn(client_id, day) ==
    {i \in 1..Len(checkins) : checkins[i].checkin_date = day}

\* for a day of the week, next((c for c in checkins if c.checkin_date ==
\* current_date), None): the ids of the client's check-ins of that day.
CheckinsOn(client_id, day) ==
    {i \in 1..Len(checkins) :
        checkins[i].client_id = client_id /\ checkins[i].checkin_date = day}

DayCheckin(client_id, day) == checkins[Min(CheckinsOn(client_id, day))]

\* The days of the week that have a check-in, Monday first.
DaysWithCheckin(client_id, week_start) ==
    SelectSeq([i \in 1..7 |-> week_start + i - 1],
              LAMBDA day : CheckinsOn(client_id, day) # {})

\* "if checkin.emotional_value:" - the value is neither NULL nor 0.
Truthy(col) == col # NULL /\ col[1] # 0

EmotionalValues(client_id, week_start) ==
    LET days == SelectSeq(DaysWithCheckin(client_id, week_start),
                    LAMBDA day : Truthy(DayCheckin(client_id, day).emotional_value))
    IN  [k \in 1..Len(days) |-> DayCheckin(client_id, days[k]).emotional_value[1]]

\* Only 1 (No), 3 (Partial) and 5 (Yes) count; 0 is "N/A".
MedicationValues(client_id, week_start) ==
    LET days == SelectSeq(DaysWithCheckin(client_id, week_start),
                    LAMBDA day : /\ DayCheckin(client_id, day).medication_value # NULL
                                 /\ DayCheckin(client_id, day).medication_value[1] \in {1, 3, 5})
    IN  [k \in 1..Len(days) |-> DayCheckin(client_id, days[k]).medication_value[1]]

ActivityValues(client_id, week_start) ==
    LET days == SelectSeq(DaysWithCheckin(client_id, week_start),
                    LAMBDA day : Truthy(DayCheckin(client_id, day).activity_value))
    IN  [k \in 1..Len(days) |-> DayCheckin(client_id, days[k]).activity_value[1]]

Quotient(num, den) == [num |-> num, den |-> den]

\* x >= n for the quotient x
AtLeast(x, n) == x.num >= n * x.den

\* (checkins_completed // 7) * 100
CompletionRateFloorDivision(checkins_completed) ==
    Quotient((checkins_completed \div 7) * 100, 1)

\* completion_rate = (checkins_completed / 7) * 100
CompletionRate(checkins_completed) == Quotient(checkins_completed * 100, 7)

\* 'Excellent' if completion_rate >= 80 else 'Good' if completion_rate >= 60
\* else 'Needs Improvement'
CompletionRating(completion_rate) ==
    IF AtLeast(completion_rate, 80) THEN "Excellent"
    ELSE IF AtLeast(completion_rate, 60) THEN "Good"
    ELSE "Needs Improvement"

\* 'Excellent' if avg >= 4 else 'Good' if avg >= 3 else <low>
AverageRating(values, low) ==
    LET avg == Quotient(SeqSum(values), Len(values))
    IN  IF AtLeast(avg, 4) THEN "Excellent" ELSE IF AtLeast(avg, 3) THEN "Good" ELSE low

\* med_adherent / len(medication_values) * 100 against 90 and 70
AdherenceRating(values) ==
    LET med_adherent == Len(SelectSeq(values, LAMBDA v : v = 5))
        adherence_rate == Quotient(med_adherent * 100, Len(values))
    IN  IF AtLeast(adherence_rate, 90) THEN "Excellent"
        ELSE IF AtLeast(adherence_rate, 70) THEN "Good"
        ELSE "Needs Improvement"

\* The rows of the summary sheet: the metric, its value and its rating.
SummaryData(client_id, week_start) ==
    LET checkins_completed == Len(DaysWithCheckin(client_id, week_start))
        ev == EmotionalValues(client_id, week_start)
        mv == MedicationValues(client_id, week_start)
        av == ActivityValues(client_id, week_start)
    IN  << [metric |-> "Check-in Completion",
            value  |-> Quotient(checkins_completed, 7),
            rating |-> CompletionRating(CompletionRate(checkins_completed))] >>
        \o (IF checkins_completed > 0 /\ ev # <<>>
            THEN << [metric |-> "Average Emotional Rating",
                     value  |-> Quotient(SeqSum(ev), Len(ev)),
                     rating |-> AverageRating(ev, "Needs Support")] >> ELSE <<>>)
        \o (IF checkins_completed > 0 /\ mv # <<>>
            THEN << [metric |-> "Medication Adherence",
                     value  |-> Quotient(Len(SelectSeq(mv, LAMBDA v : v = 5)), Len(mv)),
                     rating |-> AdherenceRating(mv)] >>
            ELSE <<>>)
        \o (IF checkins_completed > 0 /\ av # <<>>
            THEN << [metric |-> "Average Activity Level",
                     value  |-> Quotient(SeqSum(av), Len(av)),
                     rating |-> AverageRating(av, "Needs Encouragement")] >> ELSE <<>>)

\* A sheet of the workbook: its title, its header row and its data rows.
Sheet(title, header, rows) == [title |-> title, header |-> header, rows |-> rows]

\* days = ['Monday', ..., 'Sunday']: the label of row i, whatever its date.
Days == <<"Monday", "Tuesday", "Wednesday", "Thursday", "Friday", "Saturday", "Sunday">>

\* Sheets 1 and 2: one row per day of the week, one row per metric.  The
\* third column is the time of the check-in or "No check-in", the last one
\* the mark.
CheckinsSheet(client_id, week_start) ==
    Sheet("Daily Check-ins", <<"Date", "Day", "Check-in Time", "Emotional Rating">>,
          [i \in 1..7 |->
              LET date == week_start + i - 1
                  done == CheckinsOn(client_id, date) # {}
              IN  [date |-> date, day |-> Days[i],
                   time |-> IF done THEN DayCheckin(client_id, date).checkin_time
                            ELSE "No check-in",
                   done |-> done]])

SummarySheet(client_id, week_start) ==
    Sheet("Weekly Summary", <<"Metric", "Value", "Percentage", "Rating">>,
          SummaryData(client_id, week_start))

\* client.goals.filter_by(week_start=week_start.date(), is_active=True):
\* no flow of the program clears is_active.
WeeklyGoalIds(client_id, week_start) ==
    SelectSeq([i \in 1..Len(goals) |-> i],
              LAMBDA i : goals[i].client_id = client_id /\ goals[i].week_start = week_start)

\* The days of the week on which the goal has a completion marked done.
CompletedDays(goal_id, week_start) ==
    Cardinality({d \in 0..6 :
        \E k \in 1..Len(completions) :
            /\ completions[k].goal_id = goal_id
            /\ completions[k].completion_date = week_start + d
            /\ completions[k].completed = Some(TRUE)})

GoalRows(client_id, week_start) ==
    LET ids == WeeklyGoalIds(client_id, week_start)
    IN  [k \in 1..Len(ids) |->
            [goal_text |-> goals[ids[k]].goal_text,
             completed_days |-> CompletedDays(ids[k], week_start)]]

\* A goals sheet that is left out when the week has no goal.
GoalsSheetWhenAny(client_id, week_start) ==
    IF GoalRows(client_id, week_start) = <<>> THEN <<>>
    ELSE << Sheet("Weekly Goals", <<"Goal", "Mon", "Sun", "Completion Rate">>,
                  GoalRows(client_id, week_start)) >>

\* Sheet 3: title and header are written before the goals are queried.
GoalsSheet(client_id, week_start) ==
    << Sheet("Weekly Goals", <<"Goal", "Mon", "Sun", "Completion Rate">>,
             GoalRows(client_id, week_start)) >>

\* The ids sorted by created_at, ties in id order.
RECURSIVE OrderByCreatedAt(_)
OrderByCreatedAt(ids) ==
    IF ids = <<>> THEN <<>>
    ELSE LET first == CHOOSE k \in 1..Len(ids) :
                        \A j \in 1..Len(ids) :
                            \/ notes[ids[k]].created_at < notes[ids[j]].created_at
                            \/ (notes[ids[k]].created_at = notes[ids[j]].created_at /\ k <= j)
         IN  <<ids[first]>>
             \o OrderByCreatedAt(SubSeq(ids, 1, first - 1) \o SubSeq(ids, first + 1, Len(ids)))

\* The notes of the client and therapist up to the Saturday of the week.
NoteIdsUntilSaturday(t, client_id, week_start) ==
    SelectSeq([i \in 1..Len(notes) |-> i],
              LAMBDA i : /\ notes[i].client_id = client_id
                         /\ notes[i].therapist_id = t
                         /\ notes[i].created_at >= week_start
                         /\ notes[i].created_at < week_start + 6)

\* TherapistNote.query.filter(client_id, therapist_id,
\* created_at.between(week start 00:00, week end 23:59:59.999999)): the
\* notes created on a day of the week, created_at being kept by its date.
NoteIds(t, client_id, week_start) ==
    SelectSeq([i \in 1..Len(notes) |-> i],
              LAMBDA i : /\ notes[i].client_id = client_id
                         /\ notes[i].therapist_id = t
                         /\ notes[i].created_at >= week_start
                         /\ notes[i].created_at <= week_start + 6)

\* .order_by(TherapistNote.created_at).all(), and the row of each note.
NoteRows(t, client_id, week_start) ==
    LET ids == OrderByCreatedAt(NoteIds(t, client_id, week_start))
    IN  [k \in 1..Len(ids) |->
            [id |-> ids[k],
             date |-> notes[ids[k]].created_at,
             type |-> IF notes[ids[k]].is_mission THEN "MISSION" ELSE notes[ids[k]].note_type,
             content |-> notes[ids[k]].content,
             status |-> IF notes[ids[k]].is_mission
                        THEN (IF notes[ids[k]].mission_completed THEN "Completed"
                              ELSE "Pending")
                        ELSE "-"]]

\* Sheet 4.
NotesSheet(t, client_id, week_start) ==
    << Sheet("Therapist Notes", <<"Date", "Type", "Content", "Status">>,
             NoteRows(t, client_id, week_start)) >>

\* The names of the seeded tracking categories, by id.
CategoryNames ==
    <<"Emotion Level", "Energy", "Social Activity", "Sleep Quality", "Anxiety Level",
      "Motivation">>

\* The categories of the client's plans whose name is not one of 'Emotion
\* Level', 'Medication', 'Physical Activity'.
AdditionalCategories(client_id) ==
    LET ids == SelectSeq([i \in 1..Len(plans) |-> i],
                  LAMBDA i : /\ plans[i].client_id = client_id
                             /\ CategoryNames[plans[i].category_id]
                                    \notin {"Emotion Level", "Medication", "Physical Activity"})
    IN  [k \in 1..Len(ids) |-> plans[ids[k]].category_id]

\* Sheet 5, "if additional_categories:".
TrackingSheet(client_id, week_start) ==
    IF AdditionalCategories(client_id) = <<>> THEN <<>>
    ELSE << Sheet("Additional Tracking",
                  <<"Date", "Day">> \o [k \in 1..Len(AdditionalCategories(client_id)) |->
                        CategoryNames[AdditionalCategories(client_id)[k]]],
                  [i \in 1..7 |-> [date |-> week_start + i - 1]]) >>

create_weekly_report_excel(t, client_id, week_start) ==
    [made |-> TRUE, client_id |-> client_id, therapist_id |-> t, week_start |-> week_start,
     checkins_completed |-> Len(DaysWithCheckin(client_id, week_start)),
     completion_rating |-> SummaryData(client_id, week_start)[1].rating,
     summary |-> SummaryData(client_id, week_start),
     sheets |-> << CheckinsSheet(client_id, week_start), SummarySheet(client_id, week_start) >>
                \o GoalsSheet(client_id, week_start)
                \o NotesSheet(t, client_id, week_start)
                \o TrackingSheet(client_id, week_start)]

-----------------------------------------------------------------------------
(* Specification SpecReport: a store holding any subset of the days of the *)
(* first week of 2024 as check-ins of client 1, and therapists asking for  *)
(* the reports of that week and of the next.                               *)

Week2 == <<"2", "0", "2", "4", "-", "W", "2">>

\* The values a client enters over the days of a week, four ways.
Profiles ==
    { [i \in 0..6 |-> [ev |-> Some(4), mv |-> Some(5), av |-> Some(3)]],
      [i \in 0..6 |-> [ev |-> NULL, mv |-> Some(0), av |-> Some(1)]],
      [i \in 0..6 |-> [ev |-> Some((i % 5) + 1), mv |-> Some(<<0, 1, 3, 5>>[(i % 4) + 1]),
                       av |-> Some(5 - (i % 5))]],
      [i \in 0..6 |-> [ev |-> IF i % 2 = 0 THEN Some(4) ELSE Some(0), mv |-> NULL,
                       av |-> IF i < 3 THEN NULL ELSE Some(i - 2)]] }

ReportCheckin(client_id, day, v) ==
    [client_id |-> client_id, checkin_date |-> day, checkin_time |-> "09:00",
     emotional_value |-> v.ev, emotional_notes |-> NULL,
     medication_value |-> v.mv, medication_notes |-> NULL,
     activity_value |-> v.av, activity_notes |-> NULL]

\* The check-ins of client 1 on the days S of the week, in the order of
\* submission, then one of the week after and one of client 2.
WeekOfCheckins(S, profile) ==
    LET days == SelectSeq([i \in 1..7 |-> i - 1], LAMBDA i : i \in S)
    IN  [k \in 1..Len(days) |->
            ReportCheckin(1, Ordinal(2024, 1, 1) + days[k], profile[days[k]])]
        \o << ReportCheckin(1, Ordinal(2024, 1, 8), profile[0]),
              ReportCheckin(2, Ordinal(2024, 1, 1), profile[0]) >>

\* What the therapists have set up for client 1: goals, notes and default
\* plans; no goal and no note; a plan for 'Emotion Level' alone.  Client 2
\* has a goal, a note and the default plans throughout.
Client2Setup ==
    [goals |-> << SeededGoals[2] >>,
     notes |-> << [client_id |-> 2, therapist_id |-> 2, note_type |-> "welcome",
                   content |-> "welcome", is_mission |-> FALSE,
                   mission_completed |-> FALSE, created_at |-> Ordinal(2024, 1, 1)] >>,
     plans |-> SubSeq(SeededPlans, 4, 6)]

\* A note row as add_therapist_note stores it: mission_completed takes the
\* column default and no endpoint sets it afterwards.
StoredNote(client_id, t, note_type, content, is_mission, created_at) ==
    [client_id |-> client_id, therapist_id |-> t, note_type |-> note_type,
     content |-> content, is_mission |-> is_mission, mission_completed |-> FALSE,
     created_at |-> created_at]

\* Notes before the week, on its Monday, inside it, on its Sunday and on
\* the Tuesday after.
Client1Notes ==
    << StoredNote(1, 1, "welcome", "welcome", FALSE, Ordinal(2023, 12, 20)),
       StoredNote(1, 1, "general", "monday", FALSE, Ordinal(2024, 1, 1)),
       StoredNote(1, 1, "mission", "task", TRUE, Ordinal(2024, 1, 3)),
       StoredNote(1, 1, "general", "sunday", FALSE, Ordinal(2024, 1, 7)),
       StoredNote(1, 1, "mission", "later", TRUE, Ordinal(2024, 1, 9)) >>

Setups ==
    { [goals |-> << SeededGoals[1] >> \o Client2Setup.goals,
       notes |-> Client1Notes \o Client2Setup.notes,
       plans |-> SubSeq(SeededPlans, 1, 3) \o Client2Setup.plans,
       completions |-> << [goal_id |-> 1, completion_date |-> Ordinal(2024, 1, 2),
                           completed |-> Some(TRUE)] >>],
      [goals |-> Client2Setup.goals,
       notes |-> Client2Setup.notes,
       plans |-> SubSeq(SeededPlans, 1, 3) \o Client2Setup.plans,
       completions |-> <<>>],
      [goals |-> << SeededGoals[1] >> \o Client2Setup.goals,
       notes |-> Client1Notes \o Client2Setup.notes,
       plans |-> SubSeq(SeededPlans, 1, 1) \o Client2Setup.plans,
       completions |-> <<>>] }

InitReport ==
    /\ users = SeededUsers /\ therapists = SeededTherapists
    /\ clients = SeededClients
    /\ \E setup \in Setups :
          /\ goals = setup.goals /\ notes = setup.notes /\ plans = setup.plans
          /\ completions = setup.completions
    /\ \E S \in SUBSET (0..6), profile \in Profiles : checkins = WeekOfCheckins(S, profile)
    /\ responses = <<>>
    /\ reply = NoReply /\ tx = <<>> /\ served = 0
    /\ wk_in = <<>> /\ wk_out = [state |-> "none", r |-> NoWeek] /\ rpt = NoReport /\ gen = NoGen
    /\ categories = BuiltInCategories /\ initialized = TRUE

\* GET /api/reports/generate/<client_id>/<week> by the client's therapist:
\* the week is resolved and the workbook compiled.
generate_report_workbook(t, client_id, week) ==
    LET out == GenerateReport(t, client_id, week)
    IN  /\ reply' = [op |-> "generate_report", who |-> t, status |-> out.status,
                     error |-> out.error, client_id |-> client_id, success |-> out.success,
                     reads |-> out.reads, transport |-> out.transport, sends |-> out.sends]
        /\ rpt' = IF out.status = 200
                  THEN create_weekly_report_excel(t, client_id, ResolveWeek(week).week_start)
                  ELSE rpt
        /\ UNCHANGED <<store, tx, served, wk_in, wk_out, gen, categories, initialized>>

\* Its Monday is 2022-12-26.
Week1Of2023 == <<"2", "0", "2", "3", "-", "W", "1">>

NextReport ==
    \E t \in Therapists, client_id \in 1..Len(clients),
       week \in {Week1, Week2, Week1Of2023, BadWeek} :
        generate_report_workbook(t, client_id, week)

SpecReport == InitReport /\ [][NextReport]_vars

-----------------------------------------------------------------------------
(* C10.  In the weekly report summary, for every check-in count c in 0..7  *)
(* the completion bucket is 'Excellent' when c/7 is 80% or more (c = 6,    *)
(* 7), 'Good' when it is at least 60% and below 80% (c = 5) and 'Needs     *)
(* Improvement' below 60% (c = 0..4); a rate of exactly 80% is 'Excellent' *)
(* and one of exactly 60% is 'Good'.                                       *)

BucketOf(c) ==
    IF c * 100 >= 80 * 7 THEN "Excellent"
    ELSE IF c * 100 >= 60 * 7 THEN "Good"
    ELSE "Needs Improvement"

C10_CompletionBucket ==
    /\ rpt.made =>
          /\ rpt.checkins_completed \in 0..7
          /\ rpt.checkins_completed =
                Cardinality({d \in 0..6 : CheckinsOn(rpt.client_id, rpt.week_start + d) # {}})
          /\ rpt.completion_rating = BucketOf(rpt.checkins_completed)
          /\ rpt.checkins_completed \in {6, 7} => rpt.completion_rating = "Excellent"
          /\ rpt.checkins_completed = 5 => rpt.completion_rating = "Good"
          /\ rpt.checkins_completed \in 0..4 => rpt.completion_rating = "Needs Improvement"
    /\ \A c \in 0..7 : CompletionRating(CompletionRate(c)) = BucketOf(c)
    /\ CompletionRating(Quotient(80, 1)) = "Excellent"
    /\ CompletionRating(Quotient(60, 1)) = "Good"
    /\ CompletionRating(Quotient(799, 10)) = "Good"
    /\ CompletionRating(Quotient(599, 10)) = "Needs Improvement"

\* A report of a week with five check-ins has been compiled: 71.4%.
C10_Witness ==
    /\ rpt.made /\ rpt.checkins_completed = 5 /\ rpt.completion_rating = "Good"

-----------------------------------------------------------------------------
(* C11.  In the weekly report summary the average of each rated field      *)
(* (emotional, activity) is the sum of the field over the week's check-ins *)
(* divided by the number of check-ins of the week in which the field is    *)
(* non-null, and its bucket is 'Excellent' when the average is at least 4, *)
(* 'Good' when at least 3, and the lower bucket otherwise.                 *)

\* The non-null values of a field over the week's check-ins of the report.
NonNullValues(field) ==
    LET days == SelectSeq(DaysWithCheckin(rpt.client_id, rpt.week_start),
                    LAMBDA day : DayCheckin(rpt.client_id, day)[field] # NULL)
    IN  [k \in 1..Len(days) |-> DayCheckin(rpt.client_id, days[k])[field][1]]

SummaryRows(metric) == SelectSeq(rpt.summary, LAMBDA r : r.metric = metric)

AverageIsOverNonNull(field, metric, low) ==
    LET vals == NonNullValues(field)
        rows == SummaryRows(metric)
    IN  vals # <<>> =>
            /\ Len(rows) = 1
            /\ rows[1].value.num * Len(vals) = SeqSum(vals) * rows[1].value.den
            /\ rows[1].rating = (IF SeqSum(vals) >= 4 * Len(vals) THEN "Excellent"
                                 ELSE IF SeqSum(vals) >= 3 * Len(vals) THEN "Good"
                                 ELSE low)

C11_AverageOverNonNullDays ==
    rpt.made =>
        /\ AverageIsOverNonNull("emotional_value", "Average Emotional Rating", "Needs Support")
        /\ AverageIsOverNonNull("activity_value", "Average Activity Level", "Needs Encouragement")

-----------------------------------------------------------------------------
(* C12.  A weekly report generated for a client that has zero goals and    *)
(* zero therapist notes in the week still contains a goals section and a   *)
(* notes section, each present with its header and no data rows.           *)

SheetsTitled(title) == SelectSeq(rpt.sheets, LAMBDA sh : sh.title = title)

NoGoalsAndNoNotesInWeek ==
    /\ \A i \in 1..Len(goals) :
          ~(goals[i].client_id = rpt.client_id /\ goals[i].week_start = rpt.week_start)
    /\ \A i \in 1..Len(notes) :
          ~(/\ notes[i].client_id = rpt.client_id
            /\ notes[i].created_at \in rpt.week_start..(rpt.week_start + 6))

C12_EmptySectionsArePresent ==
    (rpt.made /\ NoGoalsAndNoNotesInWeek) =>
        /\ Len(SheetsTitled("Weekly Goals")) = 1
        /\ SheetsTitled("Weekly Goals")[1].header # <<>>
        /\ SheetsTitled("Weekly Goals")[1].rows = <<>>
        /\ Len(SheetsTitled("Therapist Notes")) = 1
        /\ SheetsTitled("Therapist Notes")[1].header # <<>>
        /\ SheetsTitled("Therapist Notes")[1].rows = <<>>

\* The report of a week in which the client has check-ins but neither a
\* goal nor a note.
C12_Witness ==
    /\ rpt.made /\ NoGoalsAndNoNotesInWeek
    /\ rpt.checkins_completed > 0
    /\ Len(rpt.sheets) >= 4

-----------------------------------------------------------------------------
(* C13.  The workbook has the same number of sections in the same order    *)
(* for every client and week: exactly the four sections daily check-ins,   *)
(* summary statistics, goals, therapist notes, whatever the client's       *)
(* check-ins, goals, notes and tracking plans.                             *)

C13_FourFixedSections ==
    rpt.made =>
        [k \in 1..Len(rpt.sheets) |-> rpt.sheets[k].title]
            = <<"Daily Check-ins", "Weekly Summary", "Weekly Goals", "Therapist Notes">>

-----------------------------------------------------------------------------
(* C17.  A report request whose week designator cannot be parsed is        *)
(* rejected before any read or write of the data store is made for that    *)
(* request's report: no client lookup and no check-in query precedes the   *)
(* rejection.                                                              *)

C17_UnparseableWeekRejectedBeforeStore ==
    (/\ reply.op \in {"generate_report", "email_therapy_report"}
     /\ reply.error \in {"week format", "Invalid week format"})
        => reply.reads = <<>>

-----------------------------------------------------------------------------
(* C18.  add_weekly_goal and add_therapist_note create a row only when the *)
(* target client's therapist is the calling therapist: a call naming any   *)
(* other client id creates no WeeklyGoal and no TherapistNote, and each    *)
(* row these operations write carries the therapist_id of its client.      *)

C18_GoalsAndNotesOnlyForOwnClients ==
    [][ reply'.op \in {"add_weekly_goal", "add_therapist_note"} =>
          /\ (~(/\ reply'.client_id \in 1..Len(clients)
                /\ clients[reply'.client_id].therapist_id = Some(reply'.who))
                => (goals' = goals /\ notes' = notes))
          /\ \A i \in (Len(goals) + 1)..Len(goals') :
                /\ goals'[i].client_id \in 1..Len(clients)
                /\ clients[goals'[i].client_id].therapist_id = Some(goals'[i].therapist_id)
                /\ goals'[i].therapist_id = reply'.who
          /\ \A i \in (Len(notes) + 1)..Len(notes') :
                /\ notes'[i].client_id \in 1..Len(clients)
                /\ clients[notes'[i].client_id].therapist_id = Some(notes'[i].therapist_id)
                /\ notes'[i].therapist_id = reply'.who
      ]_vars

\* A therapist has added a note for a client they created through
\* create_client.
C18_Witness ==
    /\ reply.op = "add_therapist_note" /\ reply.status = 200
    /\ reply.client_id = 3 /\ Len(notes) >= 2
    /\ \E i \in 1..Len(notes) : notes[i].client_id = 3 /\ notes[i].note_type # "welcome"

-----------------------------------------------------------------------------
(* C20.  When the outbound email transport fails while                     *)
(* email_therapy_report is sending a report, the outcome is reported to    *)
(* the caller as a failure, not as success, and the send is not retried.   *)

C20_TransportFailureIsReportedAsFailure ==
    (reply.op = "email_therapy_report" /\ reply.transport = "failed") =>
        /\ ~reply.success
        /\ reply.status >= 400
        /\ reply.sends = 1

-----------------------------------------------------------------------------
(* Accounts: register, the demo account of init_db.py and the migration of *)
(* the legacy JSON files (migrate_json_to_db.py).                          *)

\* data.get('license_number', '')
DefaultLicense == <<"", 0>>

\* POST /api/auth/register.  password is TRUE when the request carries one.
Register(email, password, role, therapist_id, license_number, serial) ==
    LET user_id   == Len(users) + 1
        client_id == Len(clients) + 1
        license   == IF license_number = NULL THEN DefaultLicense ELSE license_number[1]
        user      == NewUser(email[1], role[1])
    IN  IF email = NULL \/ ~password \/ role = NULL
        THEN Outcome(400, "Missing required fields", NoRows)
        ELSE IF role[1] \notin {"therapist", "client"}
        THEN Outcome(400, "Invalid role", NoRows)
        ELSE Reading(<<"users">>,
            IF \E i \in 1..Len(users) : users[i].email = email[1]
            THEN Outcome(400, "Email already registered", NoRows)
            ELSE IF role[1] = "therapist"
            THEN IF \E i \in 1..Len(therapists) : therapists[i].license_number = license
                 THEN Outcome(500, "unique", Rollback([NoRows EXCEPT !.users = <<user>>]))
                 ELSE Outcome(200, "",
                        [NoRows EXCEPT !.users = <<user>>,
                                       !.therapists = << [user_id |-> user_id,
                                                          license_number |-> license,
                                                          name |-> ""] >>])
            ELSE Reading(<<"clients", "categories">>,
                 IF therapist_id # NULL /\ therapist_id[1] \notin 1..Len(therapists)
                 THEN Outcome(500, "foreign key", Rollback([NoRows EXCEPT !.users = <<user>>]))
                 ELSE Outcome(200, "",
                        [NoRows EXCEPT !.users = <<user>>,
                                       !.clients = << [user_id |-> user_id,
                                                       client_serial |-> serial,
                                                       therapist_id |-> therapist_id] >>,
                                       !.plans = [i \in 1..Len(DefaultCategoryIds) |->
                                                    [client_id |-> client_id,
                                                     category_id |-> DefaultCategoryIds[i]]]])))

\* The session of a migration run: the tables as the session sees them
\* (committed rows and its own flushed rows), whether a flush has failed
\* (the loops catch the exception and never roll back, so every later
\* statement of the session raises, the commit included), the map from
\* legacy key to new id, and the count of migrated files.
MigrationSession(T) == [T |-> T, dead |-> FALSE, map |-> {}, count |-> 0]

AccountTables ==
    [users |-> users, therapists |-> therapists, clients |-> clients, plans |-> plans,
     notes |-> notes, checkins |-> checkins]

EmailTaken(T, email) == \E i \in 1..Len(T.users) : T.users[i].email = email

DefaultTherapistEmail == <<"default.therapist@system.local">>
SystemLicense == <<"SYSTEM-DEFAULT", 0>>

\* One file of therapy_data/therapists: a missing 'email' or 'name' key is
\* a KeyError, caught by the loop; the user added before it stays in the
\* session.
MigrateTherapistFile(M, f) ==
    LET user_id == Len(M.T.users) + 1
        M1 == [M EXCEPT !.T.users = Append(@, UserRow(f.email[1], "therapist", f.password_hash,
                                                      f.active))]
        license == IF f.license_number = NULL THEN <<"LEGACY", M.count>>
                   ELSE f.license_number[1]
        therapist_id == Len(M.T.therapists) + 1
    IN  IF M.dead \/ f.email = NULL THEN M
        ELSE IF EmailTaken(M.T, f.email[1]) THEN M
        ELSE IF f.name = NULL THEN M1
        ELSE IF \E i \in 1..Len(M.T.therapists) : M.T.therapists[i].license_number = license
        THEN [M1 EXCEPT !.dead = TRUE]
        ELSE [M1 EXCEPT !.T.therapists = Append(@, [user_id |-> user_id,
                                                     license_number |-> license,
                                                     name |-> f.name[1]]),
                        !.map = @ \cup {<<f.email[1], therapist_id>>},
                        !.count = @ + 1]

RECURSIVE MigrateTherapistFiles(_, _)
MigrateTherapistFiles(M, files) ==
    IF files = <<>> THEN M
    ELSE MigrateTherapistFiles(MigrateTherapistFile(M, Head(files)), Tail(files))

\* migrate_therapists(): dir is NULL when therapy_data/therapists does not
\* exist.  The default therapist is added and flushed outside any try.
MigrateTherapists(T, dir) ==
    LET T0 == [T EXCEPT !.users = Append(@, UserRow(DefaultTherapistEmail, "therapist",
                                                 Bcrypt("system_generated"), TRUE)),
                        !.therapists = Append(@, [user_id |-> Len(T.users) + 1,
                                                  license_number |-> SystemLicense,
                                                  name |-> "System Default Therapist"])]
        M == MigrateTherapistFiles(MigrationSession(T0), dir[1])
    IN  IF dir = NULL THEN [raised |-> FALSE, T |-> T, map |-> {}]
        ELSE IF EmailTaken(T, DefaultTherapistEmail)
                \/ \E i \in 1..Len(T.therapists) : T.therapists[i].license_number = SystemLicense
        THEN [raised |-> TRUE, T |-> T, map |-> {}]
        ELSE IF M.dead THEN [raised |-> TRUE, T |-> T, map |-> {}]
        ELSE [raised |-> FALSE, T |-> M.T, map |-> M.map]

PatientEmail(patient_id) == <<"patient.">> \o patient_id \o <<"@legacy.local">>

Lookup(map, key) == (CHOOSE pair \in map : pair[1] = key)[2]

\* Therapist.query.filter_by(license_number='SYSTEM-DEFAULT').first()
DefaultTherapist(T) ==
    LET ids == {i \in 1..Len(T.therapists) : T.therapists[i].license_number = SystemLicense}
    IN  IF ids = {} THEN NULL ELSE Some(Min(ids))

\* One file patient_<id>.json of therapy_data/patients.  A malformed
\* 'enrollmentDate' is a ValueError raised while the Client is built, after
\* the user was added and flushed.
MigrateClientFile(M, tmap, f) ==
    LET user_id == Len(M.T.users) + 1
        client_id == Len(M.T.clients) + 1
        M1 == [M EXCEPT !.T.users = Append(@, UserRow(PatientEmail(f.patient_id), "client",
                                                   Bcrypt("temp_password"), f.active))]
        therapist_id ==
            IF f.enrolledBy # NULL /\ \E pair \in tmap : pair[1] = f.enrolledBy[1]
            THEN Some(Lookup(tmap, f.enrolledBy[1]))
            ELSE DefaultTherapist(M.T)
        client_serial == <<"C">> \o ZFill(f.patient_id, 8)
    IN  IF M.dead THEN M
        ELSE IF EmailTaken(M.T, PatientEmail(f.patient_id)) THEN M
        ELSE IF ~ParseDate(f.enrollmentDate).ok THEN M1
        ELSE IF \E i \in 1..Len(M.T.clients) : M.T.clients[i].client_serial = client_serial
        THEN [M1 EXCEPT !.dead = TRUE]
        ELSE [M1 EXCEPT
                !.T.clients = Append(@, [user_id |-> user_id, client_serial |-> client_serial,
                                         therapist_id |-> therapist_id]),
                !.T.plans = @ \o [i \in 1..Len(DefaultCategoryIds) |->
                                    [client_id |-> client_id,
                                     category_id |-> DefaultCategoryIds[i]]],
                !.map = @ \cup {<<f.patient_id, client_id>>},
                !.count = @ + 1]

RECURSIVE MigrateClientFiles(_, _, _)
MigrateClientFiles(M, tmap, files) ==
    IF files = <<>> THEN M
    ELSE MigrateClientFiles(MigrateClientFile(M, tmap, Head(files)), tmap, Tail(files))

\* migrate_clients()
MigrateClients(T, tmap, dir) ==
    LET M == MigrateClientFiles(MigrationSession(T), tmap, dir[1])
    IN  IF dir = NULL THEN [raised |-> FALSE, T |-> T, map |-> {}]
        ELSE IF M.dead THEN [raised |-> TRUE, T |-> T, map |-> {}]
        ELSE [raised |-> FALSE, T |-> M.T, map |-> M.map]

\* One file checkin_<date>.json of therapy_data/checkins/<patient_id>.
MigrateCheckinFile(M, cmap, f) ==
    LET date == ParseDate(f.date)
        client_id == Lookup(cmap, f.patient_id)
    IN  IF ~(\E pair \in cmap : pair[1] = f.patient_id) THEN M
        ELSE IF ~date.ok THEN M
        ELSE IF \E i \in 1..Len(M.T.checkins) :
                    /\ M.T.checkins[i].client_id = client_id
                    /\ M.T.checkins[i].checkin_date = date.date
        THEN M
        ELSE [M EXCEPT !.T.checkins = Append(@,
                    [client_id |-> client_id, checkin_date |-> date.date,
                     checkin_time |-> "12:00",
                     emotional_value |-> f.emotional, emotional_notes |-> Some(""),
                     medication_value |-> NULL, medication_notes |-> Some(""),
                     activity_value |-> NULL, activity_notes |-> Some("")]),
                     !.count = @ + 1]

RECURSIVE MigrateCheckinFiles(_, _, _)
MigrateCheckinFiles(M, cmap, files) ==
    IF files = <<>> THEN M
    ELSE MigrateCheckinFiles(MigrateCheckinFile(M, cmap, Head(files)), cmap, Tail(files))

\* Seeding that does not look at what is stored.
SeedAlways(cats) == cats \o BuiltInCategories

\* if TrackingCategory.query.count() == 0: add the built-in categories
SeedIfEmpty(cats) == IF Len(cats) = 0 THEN BuiltInCategories ELSE cats

\* migrate_data() after the categories are seeded: the three migrations in
\* turn, each with its own commit; the script ends at the first one that
\* raises.
MigrateData(T, therapist_dir, patient_dir, checkin_files) ==
    LET a == MigrateTherapists(T, therapist_dir)
        b == MigrateClients(a.T, a.map, patient_dir)
        c == MigrateCheckinFiles(MigrationSession(b.T), b.map, checkin_files)
    IN  IF a.raised THEN [raised |-> TRUE, T |-> T]
        ELSE IF b.raised THEN [raised |-> TRUE, T |-> a.T]
        ELSE [raised |-> FALSE, T |-> c.T]

-----------------------------------------------------------------------------
(* Specification SpecAccounts: an empty store, or one holding the demo     *)
(* therapist, on which people register, therapists create clients and the  *)
(* migration script is run.                                                *)

DemoUsers ==
    << UserRow(<<"demo.therapist@example.com">>, "therapist", Bcrypt("demo123"), TRUE) >>
DemoTherapists ==
    << [user_id |-> 1, license_number |-> <<"DEMO", 12345>>, name |-> "Dr. Demo Therapist"] >>

RegisterRequests ==
    { [email |-> Some(<<"t3">>), password |-> TRUE, role |-> Some("therapist"),
       therapist_id |-> NULL, license_number |-> Some(<<"L", 3>>)],
      [email |-> Some(<<"t4">>), password |-> TRUE, role |-> Some("therapist"),
       therapist_id |-> NULL, license_number |-> NULL],
      [email |-> Some(<<"t5">>), password |-> TRUE, role |-> Some("therapist"),
       therapist_id |-> NULL, license_number |-> NULL],
      [email |-> Some(<<"c5">>), password |-> TRUE, role |-> Some("client"),
       therapist_id |-> NULL, license_number |-> NULL],
      [email |-> Some(<<"c3">>), password |-> TRUE, role |-> Some("client"),
       therapist_id |-> Some(1), license_number |-> NULL],
      [email |-> Some(<<"c6">>), password |-> TRUE, role |-> Some("admin"),
       therapist_id |-> NULL, license_number |-> NULL],
      [email |-> Some(<<"c6">>), password |-> FALSE, role |-> Some("client"),
       therapist_id |-> NULL, license_number |-> NULL] }

\* A therapist file; 'active' and 'password_hash' as data.get defaults them.
TherapistFile(email, name, license_number) ==
    [email |-> email, name |-> name, license_number |-> license_number,
     active |-> TRUE, password_hash |-> Bcrypt("temp_password")]

\* The file of a therapist the legacy system had deactivated, with the
\* password hash that system stored.
LegacyHash == [alg |-> "legacy", of |-> "pw"]

DeactivatedTherapistFile ==
    [TherapistFile(Some(<<"old4">>), Some("Dan"), Some(<<"L", 8>>))
        EXCEPT !.active = FALSE, !.password_hash = LegacyHash]

TherapistDirs ==
    { NULL,
      Some(<<>>),
      Some(<< TherapistFile(Some(<<"old1">>), Some("Ann"), NULL),
              TherapistFile(Some(<<"old2">>), Some("Bob"), Some(<<"L", 7>>)) >>),
      Some(<< TherapistFile(Some(<<"old1">>), Some("Ann"), NULL),
              TherapistFile(Some(<<"old3">>), NULL, NULL) >>),
      Some(<< DeactivatedTherapistFile >>),
      Some(<< TherapistFile(Some(<<"old1">>), Some("Ann"), Some(<<"L", 7>>)),
              TherapistFile(Some(<<"old2">>), Some("Bob"), Some(<<"L", 7>>)) >>) }

\* A patient file; active is data.get('status', 'active') == 'active'.
PatientFile(patient_id, enrolledBy, enrollmentDate) ==
    [patient_id |-> patient_id, enrolledBy |-> enrolledBy, enrollmentDate |-> enrollmentDate,
     active |-> TRUE]

PatientDirs ==
    { NULL,
      Some(<< PatientFile(<<"1", "7">>, Some(<<"old1">>), Jan1[1]),
              PatientFile(<<"4", "2">>, NULL, Jan2[1]) >>),
      Some(<< PatientFile(<<"1", "7">>, Some(<<"old1">>), Jan1[1]),
              PatientFile(<<"0", "1", "7">>, NULL, Jan1[1]) >>),
      Some(<< PatientFile(<<"1", "7">>, NULL, Feb30[1]) >>),
      Some(<< PatientFile(<<"1", "2", "3", "4", "5", "6", "7", "8", "9">>, NULL, Jan1[1]) >>),
      Some(<< PatientFile(<<"a", "b", "1">>, NULL, Jan1[1]) >>) }

CheckinFiles ==
    << [patient_id |-> <<"1", "7">>, date |-> Jan1[1], emotional |-> Some(4)],
       [patient_id |-> <<"1", "7">>, date |-> Jan1[1], emotional |-> Some(2)],
       [patient_id |-> <<"4", "2">>, date |-> Feb30[1], emotional |-> Some(3)],
       [patient_id |-> <<"9">>, date |-> Jan2[1], emotional |-> NULL] >>

InitAccounts ==
    /\ \E demo \in BOOLEAN :
          /\ users = IF demo THEN DemoUsers ELSE <<>>
          /\ therapists = IF demo THEN DemoTherapists ELSE <<>>
    /\ clients = <<>> /\ goals = <<>> /\ notes = <<>> /\ plans = <<>>
    /\ checkins = <<>> /\ responses = <<>> /\ completions = <<>>
    /\ reply = NoReply /\ tx = <<>> /\ served = 0
    /\ wk_in = <<>> /\ wk_out = [state |-> "none", r |-> NoWeek]
    /\ rpt = NoReport /\ gen = NoGen
    /\ categories = BuiltInCategories /\ initialized = TRUE

register ==
    \E r \in RegisterRequests, serial \in Serials :
        /\ ~SerialInUse(serial)
        /\ Serve("register", 0, 0,
                 Register(r.email, r.password, r.role, r.therapist_id, r.license_number,
                          serial))

migrate_data ==
    \E therapist_dir \in TherapistDirs, patient_dir \in PatientDirs :
        LET out == MigrateData(AccountTables, therapist_dir, patient_dir, CheckinFiles)
        IN  /\ served < MaxTherapistRequests
            /\ served' = served + 1
            /\ users' = out.T.users /\ therapists' = out.T.therapists
            /\ clients' = out.T.clients /\ plans' = out.T.plans
            /\ notes' = out.T.notes /\ checkins' = out.T.checkins
            /\ categories' = SeedIfEmpty(categories)
            /\ reply' = [op |-> "migrate_data", who |-> 0,
                         status |-> IF out.raised THEN 1 ELSE 0, error |-> "",
                         therapist_dir |-> therapist_dir, patient_dir |-> patient_dir,
                         failed |-> out.raised, seeded |-> (Len(categories) = 0)]
            /\ UNCHANGED <<goals, responses, completions, tx, wk_in, wk_out, rpt, gen,
                           initialized>>

NextAccounts ==
    \/ register
    \/ \E t \in 1..Len(therapists) : create_client(t)
    \/ migrate_data

SpecAccounts == InitAccounts /\ [][NextAccounts]_vars

-----------------------------------------------------------------------------
(* C14: serials of clients.                                                *)

WellFormedSerial(s) ==
    /\ Len(s) = 9
    /\ s[1] = "C"
    /\ \A i \in 2..9 : IsDigit(s[i])

\* C14: in every reachable store, whichever path created the clients
\* (register, create_client, the JSON migration), every client_serial is
\* 'C' followed by exactly 8 decimal digits and no two clients share one.
C14_SerialsWellFormedAndUnique ==
    /\ \A i \in 1..Len(clients) : WellFormedSerial(clients[i].client_serial)
    /\ \A i, j \in 1..Len(clients) :
          clients[i].client_serial = clients[j].client_serial => i = j

-----------------------------------------------------------------------------
(* C16: tracking plans of a client created without a category list.        *)

\* ps holds, for client cid, one plan per category flagged default and none
\* for any other category.
PlansAreTheDefaults(ps, cid) ==
    \A c \in 1..NumCategories :
        Cardinality({i \in 1..Len(ps) : ps[i].client_id = cid /\ ps[i].category_id = c})
            = IF CategoryIsDefault[c] THEN 1 ELSE 0

PlansAfter(out) == plans \o out.rows.plans

\* C16: when register with role client or create_client without
\* tracking_categories succeeds, the store then holds for the new client
\* exactly one plan per category flagged default, and the rows written carry
\* the new client's id.
C16_DefaultPlansWithoutCategoryList ==
    LET new_id == Len(clients) + 1
        Good(out) ==
            (out.status = 200 /\ out.rows.clients # <<>>)
                => /\ PlansAreTheDefaults(PlansAfter(out), new_id)
                   /\ \A i \in 1..Len(out.rows.plans) : out.rows.plans[i].client_id = new_id
    IN  /\ \A r \in RegisterRequests, serial \in Serials :
              Good(Register(r.email, r.password, r.role, r.therapist_id, r.license_number,
                            serial))
        /\ \A t \in 1..Len(therapists), r \in CreateClientRequests, serial \in Serials,
              today \in Todays :
              Good(CreateClient(t, r.email, <<>>, r.initial_goals, serial, today))

\* A client has just registered, and the store holds its default plans.
C16_Witness ==
    /\ reply.op = "register" /\ reply.status = 200
    /\ clients # <<>>
    /\ clients[Len(clients)].user_id = Len(users)
    /\ PlansAreTheDefaults(plans, Len(clients))

-----------------------------------------------------------------------------
(* C19: profiles of users.                                                 *)

TherapistProfiles(u) == {i \in 1..Len(therapists) : therapists[i].user_id = u}
ClientProfiles(u) == {i \in 1..Len(clients) : clients[i].user_id = u}

\* C19: after any sequence of register, create_client, demo initialization
\* and migration, every stored user has exactly one profile: a therapist
\* profile and no client profile when its role is therapist, a client
\* profile and no therapist profile when its role is client.
C19_ExactlyOneProfilePerUser ==
    \A u \in 1..Len(users) :
        /\ users[u].role = "therapist"
              => Cardinality(TherapistProfiles(u)) = 1 /\ ClientProfiles(u) = {}
        /\ users[u].role = "client"
              => Cardinality(ClientProfiles(u)) = 1 /\ TherapistProfiles(u) = {}

-----------------------------------------------------------------------------
(* Specification SpecSerial: one call of generate_client_serial on a store *)
(* of registered clients.  gen.pc is the position in the loop: "draw" at   *)
(* the top of `while True`, "check" before the query, "returned" after     *)
(* the return.                                                             *)

\* The serial numbers the draw is taken from (the code draws 8 digits).
MaxSerialNumber == 5

SerialNumbers == 0..MaxSerialNumber

RECURSIVE Ascending(_)
Ascending(S) ==
    IF S = {} THEN <<>> ELSE <<Min(S)>> \o Ascending(S \ {Min(S)})

\* The store after the clients with the serial numbers ns have registered.
RegisteredUsers(ns) ==
    [i \in 1..Len(ns) |-> NewUser(<<"c">> \o NatText(ns[i]), "client")]

RegisteredClients(ns) ==
    [i \in 1..Len(ns) |-> [user_id |-> i, client_serial |-> Serial(ns[i]),
                           therapist_id |-> NULL]]

RegisteredPlans(ns) ==
    LET d == Len(DefaultCategoryIds)
    IN  [k \in 1..(d * Len(ns)) |->
            [client_id |-> ((k - 1) \div d) + 1,
             category_id |-> DefaultCategoryIds[((k - 1) % d) + 1]]]

InitSerial ==
    /\ \E S \in SUBSET SerialNumbers :
          /\ users = RegisteredUsers(Ascending(S))
          /\ clients = RegisteredClients(Ascending(S))
          /\ plans = RegisteredPlans(Ascending(S))
    /\ therapists = <<>> /\ goals = <<>> /\ notes = <<>>
    /\ checkins = <<>> /\ responses = <<>> /\ completions = <<>>
    /\ reply = NoReply /\ tx = <<>> /\ served = 0
    /\ wk_in = <<>> /\ wk_out = [state |-> "none", r |-> NoWeek]
    /\ rpt = NoReport
    /\ gen = [pc |-> "draw", serial |-> <<>>]
    /\ categories = BuiltInCategories /\ initialized = TRUE

\* serial = 'C' + ''.join(random.choices(string.digits, k=8))
DrawSerial ==
    /\ gen.pc = "draw"
    /\ \E n \in SerialNumbers : gen' = [pc |-> "check", serial |-> Serial(n)]
    /\ UNCHANGED <<store, reply, tx, served, wk_in, wk_out, rpt, categories, initialized>>

\* if not Client.query.filter_by(client_serial=serial).first(): return serial
CheckSerial ==
    /\ gen.pc = "check"
    /\ gen' = IF SerialInUse(gen.serial)
              THEN [pc |-> "draw", serial |-> <<>>]
              ELSE [gen EXCEPT !.pc = "returned"]
    /\ UNCHANGED <<store, reply, tx, served, wk_in, wk_out, rpt, categories, initialized>>

NextSerial == DrawSerial \/ CheckSerial

\* The loop runs as long as it can take a step.
SpecSerial == InitSerial /\ [][NextSerial]_vars /\ WF_vars(NextSerial)

-----------------------------------------------------------------------------
(* C15: termination of generate_client_serial.                             *)

\* C15: generate_client_serial always terminates: whatever serials it
\* draws, taken ones included, it eventually returns.
C15_GenerateClientSerialTerminates == <>(gen.pc = "returned")

\* What the loop does guarantee: a returned serial is held by no client.
C15_ReturnedSerialIsUnused ==
    gen.pc = "returned" => ~SerialInUse(gen.serial)

-----------------------------------------------------------------------------
(* C21: the daily grid of the weekly report.                               *)

\* The name of the weekday of a date, by the calendar.
DayName(ord) == Days[Weekday(ord) + 1]

CheckinStored(client_id, date) ==
    \E i \in 1..Len(checkins) :
        checkins[i].client_id = client_id /\ checkins[i].checkin_date = date

\* C21: the daily grid has exactly seven rows, for the dates week_start to
\* week_start + 6, labelled Monday to Sunday as the calendar names them; a
\* row is marked done exactly when a check-in of that client and date is
\* stored, and the completion count is the number of such rows, in 0..7.
C21_DailyGridOfSevenDays ==
    rpt.made =>
        LET rows == rpt.sheets[1].rows
        IN  /\ rpt.sheets[1].title = "Daily Check-ins"
            /\ Len(rows) = 7
            /\ \A i \in 1..7 :
                  /\ rows[i].date = rpt.week_start + i - 1
                  /\ rows[i].day = Days[i]
                  /\ rows[i].day = DayName(rows[i].date)
                  /\ rows[i].done <=> CheckinStored(rpt.client_id, rows[i].date)
                  /\ rows[i].done <=> rows[i].time # "No check-in"
            /\ rpt.checkins_completed = Cardinality({i \in 1..7 : rows[i].done})
            /\ rpt.checkins_completed \in 0..7

\* A report of a week in which client 1 checked in on some days and not on
\* others, while client 2 checked in on a day client 1 missed.
C21_Witness ==
    /\ rpt.made /\ rpt.client_id = 1
    /\ rpt.checkins_completed \in 1..6
    /\ \E i \in 1..7 :
          /\ ~rpt.sheets[1].rows[i].done
          /\ CheckinStored(2, rpt.sheets[1].rows[i].date)

-----------------------------------------------------------------------------
(* C22: the notes section of the weekly report.                            *)

NotesOfClientInWeek(client_id, week_start) ==
    {i \in 1..Len(notes) :
        /\ notes[i].client_id = client_id
        /\ notes[i].created_at \in week_start..(week_start + 6)}

\* C22: the notes sheet lists exactly the client's notes and missions
\* created from the Monday to the Sunday of the week, each once, in
\* non-decreasing order of creation, and a mission row reads 'Completed'
\* when its completed flag is set and 'Pending' otherwise.
C22_NotesOfTheWeekInOrder ==
    rpt.made =>
        LET rows == rpt.sheets[4].rows
        IN  /\ rpt.sheets[4].title = "Therapist Notes"
            /\ {rows[k].id : k \in 1..Len(rows)}
                  = NotesOfClientInWeek(rpt.client_id, rpt.week_start)
            /\ Len(rows) = Cardinality(NotesOfClientInWeek(rpt.client_id, rpt.week_start))
            /\ \A k \in 1..Len(rows) :
                  /\ rows[k].date = notes[rows[k].id].created_at
                  /\ notes[rows[k].id].is_mission =>
                        rows[k].status = IF notes[rows[k].id].mission_completed
                                         THEN "Completed" ELSE "Pending"
                  /\ k < Len(rows) => rows[k].date <= rows[k + 1].date

\* A report for client 1 listing a note of the Monday, a pending mission and
\* a note of the Sunday, while notes before and after the week are stored.
C22_Witness ==
    /\ rpt.made /\ rpt.client_id = 1
    /\ Len(rpt.sheets[4].rows) = 3
    /\ rpt.sheets[4].rows[1].date = rpt.week_start
    /\ rpt.sheets[4].rows[2].status = "Pending"
    /\ rpt.sheets[4].rows[3].date = rpt.week_start + 6
    /\ \E i \in 1..Len(notes) : notes[i].client_id = 1 /\ notes[i].created_at > rpt.week_start + 6
    /\ \E i \in 1..Len(notes) : notes[i].client_id = 1 /\ notes[i].created_at < rpt.week_start

-----------------------------------------------------------------------------
(* Authentication: tokens, require_auth and login.                         *)

\* What jwt.decode finds in a token: whether the signature verifies with
\* the server's secret, whether 'exp' has passed, and the payload.
Token(signed, expired, user_id, role) ==
    [signed |-> signed, expired |-> expired, user_id |-> user_id, role |-> role]

NoToken == Token(FALSE, FALSE, 0, "")

\* The Authorization header: absent, of another scheme, or 'Bearer <token>'.
Header(scheme, token) == [scheme |-> scheme, token |-> token]

\* verify_token: the payload, or None on InvalidTokenError (the signature)
\* and ExpiredSignatureError.
VerifyToken(token) ==
    IF ~token.signed \/ token.expired THEN NULL
    ELSE Some([user_id |-> token.user_id, role |-> token.role])

\* The role the token was issued for.
RoleOfToken(user_id, payload) == payload.role

\* user.role of the stored user
RoleOfUser(user_id, payload) == users[user_id].role

AuthFailure(status, error) == [passed |-> FALSE, status |-> status, error |-> error, user_id |-> 0]

\* require_auth(allowed_roles) up to the call of the handler.
RequireAuth(header, allowed_roles) ==
    LET payload == VerifyToken(header.token)
    IN  IF header.scheme # "Bearer" THEN AuthFailure(401, "Invalid authorization header")
        ELSE IF payload = NULL THEN AuthFailure(401, "Invalid or expired token")
        ELSE IF payload[1].user_id \notin 1..Len(users)
        THEN AuthFailure(401, "User not found or inactive")
        ELSE IF ~users[payload[1].user_id].is_active
        THEN AuthFailure(401, "User not found or inactive")
        ELSE IF allowed_roles # {} /\ RoleOfUser(payload[1].user_id, payload[1]) \notin allowed_roles
        THEN AuthFailure(403, "Insufficient permissions")
        ELSE [passed |-> TRUE, status |-> 200, error |-> "", user_id |-> payload[1].user_id]

\* request.current_user.therapist.id and request.current_user.client.id:
\* 0 when the user has no such profile (the attribute access then raises
\* inside the handler).
TherapistOf(user_id) ==
    LET ids == {i \in 1..Len(therapists) : therapists[i].user_id = user_id}
    IN  IF ids = {} THEN 0 ELSE Min(ids)

ClientOf(user_id) ==
    LET ids == {i \in 1..Len(clients) : clients[i].user_id = user_id}
    IN  IF ids = {} THEN 0 ELSE Min(ids)

\* The 'password' of a request body: a text, a JSON number, or missing.
Password(kind, text) == [kind |-> kind, text |-> text]

\* bcrypt.check_password_hash(pw_hash, password): whether the text hashes to
\* pw_hash; it raises on a password that is not a text (TypeError of
\* bcrypt.hashpw) and on a pw_hash that is no bcrypt hash (ValueError).
CheckPasswordHash(pw_hash, password) ==
    IF password.kind # "text" \/ pw_hash.alg # "bcrypt"
    THEN [raised |-> TRUE, ok |-> FALSE]
    ELSE [raised |-> FALSE, ok |-> (pw_hash = Bcrypt(password.text))]

\* User.query.filter_by(email=email).first(): the id, 0 for None.
UserByEmail(email) ==
    LET ids == {i \in 1..Len(users) : users[i].email = email}
    IN  IF ids = {} THEN 0 ELSE Min(ids)

LoginResult(status, error, user_id, token) ==
    [status |-> status, error |-> error, user_id |-> user_id, token |-> token]

\* POST /api/auth/login up to the response: the status, the error text, the
\* user whose last_login is committed (0 for none) and the token issued.
Login(email, password) ==
    LET u == UserByEmail(email[1])
    IN  IF email = NULL \/ password.kind = "missing"
        THEN LoginResult(400, "Missing email or password", 0, NoToken)
        ELSE IF u = 0 THEN LoginResult(401, "Invalid credentials", 0, NoToken)
        ELSE IF CheckPasswordHash(users[u].password_hash, password).raised
        THEN LoginResult(500, "exception", 0, NoToken)
        ELSE IF ~CheckPasswordHash(users[u].password_hash, password).ok
        THEN LoginResult(401, "Invalid credentials", 0, NoToken)
        ELSE IF ~users[u].is_active THEN LoginResult(401, "Account deactivated", 0, NoToken)
        ELSE LoginResult(200, "", u, Token(TRUE, FALSE, u, users[u].role))

-----------------------------------------------------------------------------
(* Specification SpecAuth: requests with any Authorization header to a     *)
(* therapist endpoint and to a client endpoint, on the seeded store and a  *)
(* migrated therapist whose account is deactivated.                        *)

MaxAuthRequests == 2

\* Users 5 and 6 are migrated: a deactivated therapist with the password
\* hash of the legacy system and a deactivated patient.
AuthUsers ==
    SeededUsers \o << UserRow(<<"old4">>, "therapist", LegacyHash, FALSE),
                      UserRow(PatientEmail(<<"1", "7">>), "client", Bcrypt("temp_password"),
                              FALSE) >>

AuthClients ==
    SeededClients \o << [user_id |-> 6, client_serial |-> <<"C">> \o ZFill(<<"1", "7">>, 8),
                         therapist_id |-> NULL] >>

AuthPlans ==
    SeededPlans \o [i \in 1..Len(DefaultCategoryIds) |->
                      [client_id |-> 3, category_id |-> DefaultCategoryIds[i]]]

LoginEmails == {NULL, Some(<<"t1">>), Some(<<"old4">>), Some(PatientEmail(<<"1", "7">>)),
                Some(<<"nobody">>)}

LoginPasswords ==
    {Password("missing", ""), Password("number", ""), Password("text", "pw"),
     Password("text", "temp_password"), Password("text", "bad")}

\* datetime.utcnow() at the login
LoginTimes == {Ordinal(2024, 1, 1), Ordinal(2024, 1, 2)}

AuthTherapists ==
    SeededTherapists \o << [user_id |-> 5, license_number |-> <<"L", 8>>, name |-> "Dan"] >>

\* Tokens for therapist t1, client c1, the deactivated therapist and a user
\* id that is not stored.
Tokens ==
    {Token(signed, expired, user_id, role) :
        signed \in BOOLEAN, expired \in BOOLEAN, user_id \in {1, 3, 5, 9},
        role \in {"therapist", "client"}}

Headers ==
    {Header("none", NoToken), Header("Basic", NoToken)}
        \cup {Header("Bearer", token) : token \in Tokens}

AuthCheckinRequests ==
    { CheckinData(Jan1, JInt(2), NULL, JNull, NULL, JNull, NULL, <<>>, <<>>),
      CheckinData(Jan2, JInt(4), Txt("calm"), JInt(0), NULL, JInt(5), Txt("run"), <<>>, <<>>) }

InitAuth ==
    /\ users = AuthUsers /\ therapists = AuthTherapists
    /\ clients = AuthClients /\ goals = SeededGoals
    /\ notes = <<>> /\ plans = AuthPlans
    /\ checkins = <<>> /\ responses = <<>> /\ completions = <<>>
    /\ reply = NoReply /\ tx = <<>> /\ served = 0
    /\ wk_in = <<>> /\ wk_out = [state |-> "none", r |-> NoWeek] /\ rpt = NoReport /\ gen = NoGen
    /\ categories = BuiltInCategories /\ initialized = TRUE

AuthReply(op, header, allowed_roles, auth, ran, status, error) ==
    [op |-> op, who |-> auth.user_id, status |-> status, error |-> error,
     header |-> header, roles |-> allowed_roles, ran |-> ran]

\* POST /api/therapist/add-note behind @require_auth(['therapist'])
authorized_add_therapist_note ==
    \E header \in Headers, client_id \in ClientIds, r \in AddNoteRequests :
        LET auth == RequireAuth(header, {"therapist"})
            t    == TherapistOf(auth.user_id)
            out  == IF ~auth.passed THEN Outcome(auth.status, auth.error, NoRows)
                    ELSE IF t = 0 THEN Outcome(500, "no profile", NoRows)
                    ELSE AddTherapistNote(t, client_id, r.content, r.is_mission, r.note_type,
                                          Ordinal(2024, 1, 1))
        IN  /\ served < MaxAuthRequests
            /\ served' = served + 1
            /\ notes' = notes \o out.rows.notes
            /\ reply' = AuthReply("add_therapist_note", header, {"therapist"}, auth,
                                  auth.passed, out.status, out.error)
            /\ UNCHANGED <<users, therapists, clients, goals, plans, checkins, responses,
                           completions, tx, wk_in, wk_out, rpt, gen, categories, initialized>>

\* POST /api/client/checkin behind @require_auth(['client'])
authorized_submit_checkin ==
    \E header \in Headers, data \in AuthCheckinRequests :
        LET auth == RequireAuth(header, {"client"})
            c    == ClientOf(auth.user_id)
            runs == auth.passed /\ c # 0
            t    == IF runs THEN RunCheckin(Tables, NewRequest(c, data, Today, "09:00")) ELSE Idle
        IN  /\ served < MaxAuthRequests
            /\ served' = served + 1
            /\ checkins' = Apply(checkins, t.D.checkins)
            /\ responses' = Apply(responses, t.D.responses)
            /\ completions' = Apply(completions, t.D.completions)
            /\ reply' = AuthReply("submit_checkin", header, {"client"}, auth, auth.passed,
                                  IF ~auth.passed THEN auth.status
                                  ELSE IF c = 0 THEN 500 ELSE t.status,
                                  IF ~auth.passed THEN auth.error ELSE t.error)
            /\ UNCHANGED <<users, therapists, clients, goals, notes, plans, tx, wk_in, wk_out,
                           rpt, gen, categories, initialized>>

\* POST /api/auth/login: last_login is set and committed before the token
\* is generated.
login ==
    \E email \in LoginEmails, password \in LoginPasswords, now \in LoginTimes :
        LET out == Login(email, password)
        IN  /\ served < MaxAuthRequests
            /\ served' = served + 1
            /\ users' = IF out.user_id = 0 THEN users
                        ELSE [users EXCEPT ![out.user_id].last_login = Some(now)]
            /\ reply' = [op |-> "login", who |-> out.user_id, status |-> out.status,
                         error |-> out.error, token |-> out.token,
                         email |-> email, password |-> password]
            /\ UNCHANGED <<therapists, clients, goals, notes, plans, checkins, responses,
                           completions, tx, wk_in, wk_out, rpt, gen, categories, initialized>>

NextAuth == authorized_add_therapist_note \/ authorized_submit_checkin \/ login

SpecAuth == InitAuth /\ [][NextAuth]_vars

-----------------------------------------------------------------------------
(* C23: what require_auth lets through.                                    *)

TokenIsGood(header) ==
    header.scheme = "Bearer" /\ header.token.signed /\ ~header.token.expired

UserIsActive(header) ==
    /\ header.token.user_id \in 1..Len(users)
    /\ users[header.token.user_id].is_active

-----------------------------------------------------------------------------
(* C24: register and create_client are all-or-nothing.                     *)

\* C24: when register or create_client fails, at whatever step, no row of
\* that call remains in the store.
C24_FailedCreationLeavesNoRow ==
    [][ (reply'.op \in {"register", "create_client"} /\ reply'.status # 200)
            => store' = store ]_vars

\* A successful call writes the user with its profile, and the plans of a
\* client.
C24_SuccessfulCreationWritesAll ==
    [][ (reply'.op \in {"register", "create_client"} /\ reply'.status = 200)
            => /\ Len(users') = Len(users) + 1
               /\ Len(therapists') + Len(clients') = Len(therapists) + Len(clients) + 1
               /\ Len(clients') > Len(clients) => Len(plans') > Len(plans) ]_vars

\* create_client has failed on an invalid tracking category, after its user
\* and client were flushed, in a store an earlier creation has filled.
C24_Witness ==
    /\ reply.op = "create_client" /\ reply.status = 500 /\ reply.error = "foreign key"
    /\ clients # <<>>

-----------------------------------------------------------------------------
(* C25: login.                                                             *)

\* The password is a text that hashes to the stored hash of user u.
PasswordMatches(u, password) ==
    /\ password.kind = "text"
    /\ users[u].password_hash = Bcrypt(password.text)

LoginChecks(MayRaise) ==
    (served' # served /\ reply'.op = "login") =>
          LET email == reply'.email
              password == reply'.password
              u == IF email = NULL THEN 0 ELSE UserByEmail(email[1])
              valid == u # 0 /\ PasswordMatches(u, password)
          IN  /\ reply'.token # NoToken =>
                    /\ valid /\ users[u].is_active
                    /\ reply'.token = Token(TRUE, FALSE, u, users[u].role)
                    /\ users' = [users EXCEPT ![u].last_login = users'[u].last_login]
              /\ (email # NULL /\ password.kind # "missing" /\ ~valid) =>
                    \/ reply'.status = 401 /\ reply'.error = "Invalid credentials"
                    \/ MayRaise /\ u # 0 /\ reply'.status = 500
              /\ (u # 0 /\ ~users[u].is_active) => reply'.token = NoToken
              /\ reply'.token = NoToken => users' = users

\* C25: login issues a token only when the email exists, the password
\* matches and the user is active; an unknown email and a wrong password get
\* the same 401 'Invalid credentials'; a deactivated user gets no token and
\* no new last_login.
C25_LoginIssuesTokenOnlyForValidCredentials == [][LoginChecks(FALSE)]_vars

\* What holds: the same, except that a wrong password for a stored email may
\* also be answered 500.
C25_LoginUpToExceptions == [][LoginChecks(TRUE)]_vars

-----------------------------------------------------------------------------
(* Seeding of the tracking categories.  initialize_database runs in the    *)
(* web process at import and before every request; init_db.py and the      *)
(* migration are scripts, each a process of its own.                       *)

\* Where the database fails during a call, if it does.
Faults == {"none", "create_all", "count", "commit"}

\* initialize_database() with the flag _initialized and the stored
\* categories: the flag and the categories after the call, whether the body
\* ran, whether it raised, whether it wrote the categories.
InitializeDatabase(flag, cats, fault) ==
    LET raises == fault \in {"create_all", "count"} \/ (fault = "commit" /\ Len(cats) = 0)
    IN  IF flag
        THEN [flag |-> TRUE, categories |-> cats, ran |-> FALSE, failed |-> FALSE,
              seeded |-> FALSE]
        ELSE IF raises
        THEN [flag |-> FALSE, categories |-> cats, ran |-> TRUE, failed |-> TRUE,
              seeded |-> FALSE]
        ELSE [flag |-> TRUE, categories |-> SeedIfEmpty(cats), ran |-> TRUE, failed |-> FALSE,
              seeded |-> (Len(cats) = 0)]

\* init_db.init_database() on the tables T and the categories: it returns
\* when categories are stored, else it adds them, and the demo therapist
\* when CREATE_DEMO_ACCOUNTS is set, in one commit; a failure of the
\* database ends the script with nothing written.
InitDatabase(T, cats, demo, fault) ==
    LET has_demo == EmailTaken(T, DemoUsers[1].email)
        license_taken ==
            \E i \in 1..Len(T.therapists) :
                T.therapists[i].license_number = DemoTherapists[1].license_number
        with_demo ==
            [T EXCEPT !.users = @ \o DemoUsers,
                      !.therapists = @ \o << [DemoTherapists[1] EXCEPT
                                                !.user_id = Len(T.users) + 1] >>]
    IN  IF fault # "none" \/ (Len(cats) = 0 /\ demo /\ ~has_demo /\ license_taken)
        THEN [T |-> T, categories |-> cats, failed |-> TRUE, seeded |-> FALSE]
        ELSE IF Len(cats) > 0
        THEN [T |-> T, categories |-> cats, failed |-> FALSE, seeded |-> FALSE]
        ELSE [T |-> IF demo /\ ~has_demo THEN with_demo ELSE T,
              categories |-> SeedIfEmpty(cats), failed |-> FALSE, seeded |-> TRUE]

-----------------------------------------------------------------------------
(* Specification SpecSeed: an empty database on which the web process      *)
(* starts, serves requests and restarts, and the two scripts are run, the  *)
(* database failing at times.                                              *)

MaxSeedCalls == 3

InitSeed ==
    /\ users = <<>> /\ therapists = <<>>
    /\ clients = <<>> /\ goals = <<>> /\ notes = <<>> /\ plans = <<>>
    /\ checkins = <<>> /\ responses = <<>> /\ completions = <<>>
    /\ reply = NoReply /\ tx = <<>> /\ served = 0
    /\ wk_in = <<>> /\ wk_out = [state |-> "none", r |-> NoWeek]
    /\ rpt = NoReport /\ gen = NoGen
    /\ categories = <<>> /\ initialized = FALSE

SeedReply(op, out, was_initialized) ==
    [op |-> op, who |-> 0, status |-> IF out.failed THEN 1 ELSE 0, error |-> "",
     failed |-> out.failed, seeded |-> out.seeded, was_initialized |-> was_initialized]

\* initialize_database() of the web process, at import or before a request
initialize_database ==
    \E fault \in Faults :
        LET out == InitializeDatabase(initialized, categories, fault)
        IN  /\ served < MaxSeedCalls
            /\ served' = served + 1
            /\ initialized' = out.flag
            /\ categories' = out.categories
            /\ reply' = SeedReply("initialize_database", out, initialized)
            /\ UNCHANGED <<store, tx, wk_in, wk_out, rpt, gen>>

\* The web process is started anew: the module is imported again and its
\* flag is False.
restart ==
    /\ initialized
    /\ initialized' = FALSE
    /\ UNCHANGED <<store, reply, tx, served, wk_in, wk_out, rpt, gen, categories>>

\* python init_db.py: importing new_backend calls initialize_database unless
\* PRODUCTION is set, then init_database() runs.
init_database ==
    \E production \in BOOLEAN, demo \in BOOLEAN, fault \in Faults :
        LET at_import == IF production THEN categories
                         ELSE InitializeDatabase(FALSE, categories, fault).categories
            out == InitDatabase(AccountTables, at_import, demo, fault)
        IN  /\ served < MaxSeedCalls
            /\ served' = served + 1
            /\ categories' = out.categories
            /\ users' = out.T.users /\ therapists' = out.T.therapists
            /\ reply' = SeedReply("init_database",
                                  [out EXCEPT !.seeded = (Len(categories') > Len(categories))],
                                  FALSE)
            /\ UNCHANGED <<clients, goals, notes, plans, checkins, responses, completions, tx,
                           wk_in, wk_out, rpt, gen, initialized>>

NextSeed == initialize_database \/ restart \/ init_database \/ migrate_data

SpecSeed == InitSeed /\ [][NextSeed]_vars

-----------------------------------------------------------------------------
(* C26: the categories are seeded at most once.                            *)

CategoryCount(cats, name) == Cardinality({i \in 1..Len(cats) : cats[i].name = name})

BuiltInNames == {BuiltInCategories[i].name : i \in 1..Len(BuiltInCategories)}

\* The six built-in categories exactly once each, three of them default.
SeededOnce(cats) ==
    /\ Len(cats) = 6
    /\ \A name \in BuiltInNames : CategoryCount(cats, name) = 1
    /\ Cardinality({i \in 1..Len(cats) : cats[i].is_default}) = 3

\* C26: after any sequence of initialize_database calls, init_database runs
\* and migration runs the store holds no category or the six built-in ones
\* exactly once each; categories once stored are never written again; a
\* call that seeds leaves them stored; a failed initialize_database leaves
\* its flag reset, a successful one leaves it set, and a call made with the
\* flag set does nothing.
C26_CategoriesSeededAtMostOnce ==
    [][ /\ categories' = <<>> \/ SeededOnce(categories')
        /\ categories # <<>> => categories' = categories
        /\ (served' # served /\ reply'.seeded) => (categories = <<>> /\ SeededOnce(categories'))
        /\ (served' # served /\ reply'.op = "initialize_database") =>
              /\ reply'.failed => ~initialized'
              /\ ~reply'.failed => initialized'
              /\ initialized => (~reply'.failed /\ UNCHANGED <<categories, initialized, store>>)
      ]_vars

\* The web process failed to initialize, tried again at a later call and
\* found the categories another run had stored.
C26_Witness ==
    /\ reply.op = "initialize_database" /\ ~reply.failed /\ ~reply.seeded
    /\ ~reply.was_initialized
    /\ initialized /\ SeededOnce(categories)
    /\ served = 3

-----------------------------------------------------------------------------
(* C27: running the migration again.                                       *)

\* C27: a run of the migration on the store a completed run of the same
\* files has left skips what exists, completes without error and leaves the
\* store as it was.
C27_MigrationCanBeRunAgain ==
    [][ ( /\ reply.op = "migrate_data" /\ ~reply.failed
          /\ served' # served /\ reply'.op = "migrate_data"
          /\ reply'.therapist_dir = reply.therapist_dir
          /\ reply'.patient_dir = reply.patient_dir )
            => (~reply'.failed /\ store' = store) ]_vars

\* What holds: when therapy_data/therapists does not exist, the second run
\* changes nothing.
C27_RerunWithoutTherapistFiles ==
    [][ ( /\ reply.op = "migrate_data" /\ ~reply.failed
          /\ served' # served /\ reply'.op = "migrate_data"
          /\ reply'.therapist_dir = NULL /\ reply.therapist_dir = NULL
          /\ reply'.patient_dir = reply.patient_dir )
            => (~reply'.failed /\ store' = store) ]_vars

-----------------------------------------------------------------------------
(* Claims about submit_checkin updating a stored check-in (SpecCheckin).   *)

\* The categories and goals a request names, as int() reads their keys.
NamedCategories(data) ==
    {PyInt(data.category_responses[i].key).v : i \in 1..Len(data.category_responses)}

NamedGoals(data) ==
    {PyInt(data.goal_completions[i].key).v : i \in 1..Len(data.goal_completions)}

\* A successful submission for a (client, date) that already had a check-in.
UpdatedCheckin ==
    /\ served' # served /\ reply'.op = "submit_checkin"
    /\ reply'.status = 200 /\ reply'.existing

(* C28.  When submit_checkin updates an existing DailyCheckin, the six     *)
(* value/notes fields of the row are those of the new request, a field the *)
(* request omits becoming null whatever was stored, and every              *)
(* CategoryResponse and GoalCompletion row whose key the request does not  *)
(* name is left as it was.                                                 *)
C28_UpdateOverwritesFieldsAndKeepsOtherRows ==
    [][ UpdatedCheckin =>
          /\ \A i \in 1..Len(checkins') :
                (checkins'[i].client_id = reply'.who /\ checkins'[i].checkin_date = reply'.date)
                    => SixFields(checkins'[i]) = SubmittedFields(reply'.data)
          /\ Len(checkins') = Len(checkins)
          /\ Len(responses') >= Len(responses)
          /\ \A i \in 1..Len(responses) :
                ~( /\ responses[i].client_id = reply'.who
                   /\ responses[i].response_date = reply'.date
                   /\ responses[i].category_id \in NamedCategories(reply'.data) )
                    => responses'[i] = responses[i]
          /\ Len(completions') >= Len(completions)
          /\ \A i \in 1..Len(completions) :
                ~( /\ completions[i].completion_date = reply'.date
                   /\ completions[i].goal_id \in NamedGoals(reply'.data) )
                    => completions'[i] = completions[i] ]_vars

\* A second submission for a stored date succeeded that omits the
\* medication and activity values and every note but names a category and
\* a goal: the row's omitted fields are null, and the completion the first
\* submission stored for the goal it does not name is still there.
C28_Witness ==
    /\ Submitted /\ reply.existing /\ served >= 2
    /\ reply.data.medication_value.t = "null" /\ reply.data.emotional_notes = NULL
    /\ reply.data.category_responses # <<>> /\ reply.data.goal_completions # <<>>
    /\ \E i \in CheckinsOf(reply.who, reply.date) :
          checkins[i].medication_value = NULL /\ checkins[i].emotional_notes = NULL
    /\ \E i \in 1..Len(completions) :
          /\ completions[i].completion_date = reply.date
          /\ completions[i].goal_id \notin NamedGoals(reply.data)
          /\ goals[completions[i].goal_id].client_id = reply.who

-----------------------------------------------------------------------------
(* Specification SpecOwnReport: over the stores of SpecReport, a client    *)
(* asks for the report of a week (the workbook and the email text) and the *)
(* client's therapist asks for the report of the same client (the workbook *)
(* and the email text).                                                    *)

\* client.checkins.filter(checkin_date.between(week_start, week_end))
\* .order_by(checkin_date).all() -- the rows in stored order, which the
\* sums and counts below do not depend on.
WeekCheckins(client_id, week_start) ==
    SelectSeq(checkins, LAMBDA c : /\ c.client_id = client_id
                                   /\ c.checkin_date >= week_start
                                   /\ c.checkin_date <= week_start + 6)

\* sum(c.<field> for c in checkins if c.<field>)
TruthySum(rows, field) ==
    SeqSum([k \in 1..Len(rows) |->
               IF Truthy(rows[k][field]) THEN rows[k][field][1] ELSE 0])

\* The "WEEKLY SUMMARY" of the client's workbook and of the client's email
\* text: the same four statements in both, each divided by the number of
\* check-ins of the week.
ClientSummary(client_id, week_start) ==
    LET rows == WeekCheckins(client_id, week_start)
        total_checkins == Len(rows)
    IN  [total_checkins |-> total_checkins,
         figures |->
            IF total_checkins > 0
            THEN << [metric |-> "Average Emotional Rating",
                     value |-> Quotient(TruthySum(rows, "emotional_value"), total_checkins)],
                    [metric |-> "Medication Adherence",
                     value |-> Quotient(Len(SelectSeq(rows,
                                   LAMBDA c : c.medication_value = Some(5))), total_checkins)],
                    [metric |-> "Average Activity Level",
                     value |-> Quotient(TruthySum(rows, "activity_value"), total_checkins)] >>
            ELSE <<>>]

\* The statistics of the therapist's email text: each over the check-ins
\* that carry a value (for the medication, a value above 0), and 0 when no
\* check-in carries one.
EmailSummary(client_id, week_start) ==
    LET rows == WeekCheckins(client_id, week_start)
        emotional_values == SelectSeq(rows, LAMBDA c : Truthy(c.emotional_value))
        med_values == SelectSeq(rows, LAMBDA c : Truthy(c.medication_value)
                                                  /\ c.medication_value[1] > 0)
        activity_values == SelectSeq(rows, LAMBDA c : Truthy(c.activity_value))
    IN  [checkins_completed |-> Len(rows),
         avg_emotional |-> IF emotional_values = <<>> THEN Quotient(0, 1)
                           ELSE Quotient(TruthySum(rows, "emotional_value"),
                                         Len(emotional_values)),
         adherence |-> IF med_values = <<>> THEN Quotient(0, 1)
                       ELSE Quotient(Len(SelectSeq(med_values,
                                        LAMBDA c : c.medication_value = Some(5))),
                                     Len(med_values)),
         avg_activity |-> IF activity_values = <<>> THEN Quotient(0, 1)
                          ELSE Quotient(TruthySum(rows, "activity_value"),
                                        Len(activity_values))]

NoSummary == [total_checkins |-> 0, figures |-> <<>>]

\* The answer of a client's report request: 500 with the exception's text
\* when the week does not parse, else the summary of the week.
OwnReport(op, c, week) ==
    LET ok == ParseWeek(week).ok /\ ResolveWeek(week).ok
    IN  [op |-> op, who |-> c, status |-> IF ok THEN 200 ELSE 500,
         error |-> IF ok THEN "" ELSE "week format",
         client_id |-> c,
         week_start |-> IF ok THEN ResolveWeek(week).week_start ELSE 0,
         summary |-> IF ok THEN ClientSummary(c, ResolveWeek(week).week_start)
                     ELSE NoSummary]

\* GET /api/client/generate-report/<week> by client c.
client_generate_report(c, week) ==
    /\ reply' = OwnReport("client_generate_report", c, week)
    /\ UNCHANGED <<store, tx, served, wk_in, wk_out, rpt, gen, categories, initialized>>

\* POST /api/client/email-report by client c: 400 without a week.
client_email_report(c, week) ==
    /\ reply' = IF week = <<>>
                 THEN [OwnReport("client_email_report", c, week)
                          EXCEPT !.status = 400, !.error = "Week is required"]
                 ELSE OwnReport("client_email_report", c, week)
    /\ UNCHANGED <<store, tx, served, wk_in, wk_out, rpt, gen, categories, initialized>>

\* POST /api/therapist/email-report with mail not configured: the email
\* text with its statistics is returned for manual sending.
email_report_content(t, client_id, week) ==
    LET out == EmailTherapyReport(t, JInt(client_id), week, "unconfigured")
    IN  /\ reply' = [op |-> "email_therapy_report", who |-> t, status |-> out.status,
                     error |-> out.error, client_id |-> client_id,
                     week_start |-> IF out.status = 200 THEN ResolveWeek(week).week_start ELSE 0,
                     content |-> IF out.status = 200
                                 THEN EmailSummary(client_id, ResolveWeek(week).week_start)
                                 ELSE EmailSummary(client_id, 0)]
        /\ UNCHANGED <<store, tx, served, wk_in, wk_out, rpt, gen, categories, initialized>>

OwnReportWeeks == {Week1, BadWeek}

NextOwnReport ==
    \/ \E c \in 1..Len(clients), week \in OwnReportWeeks :
          client_generate_report(c, week)
    \/ \E c \in 1..Len(clients), week \in OwnReportWeeks \cup {<<>>} :
          client_email_report(c, week)
    \/ \E t \in Therapists, client_id \in 1..Len(clients), week \in OwnReportWeeks :
          generate_report_workbook(t, client_id, week)
    \/ \E t \in Therapists, client_id \in 1..Len(clients), week \in OwnReportWeeks :
          email_report_content(t, client_id, week)

\* One arrangement of goals, notes and plans is enough (the one with the
\* default plans and no goal completion): the summaries read check-ins only.
InitOwnReport ==
    /\ InitReport
    /\ completions = <<>> /\ Len(plans) = 6

SpecOwnReport == InitOwnReport /\ [][NextOwnReport]_vars

\* x = y for two quotients.
SameQuotient(x, y) == x.num * y.den = y.num * x.den

\* A client's report answered for a week has been produced.
OwnReportMade ==
    /\ reply.op \in {"client_generate_report", "client_email_report"}
    /\ reply.status = 200

\* The therapist's workbook in hand is the one of the same client and week.
SameClientAndWeek ==
    rpt.made /\ rpt.client_id = reply.client_id /\ rpt.week_start = reply.week_start

\* The figure the client's report states for a metric agrees with the
\* therapist's workbook: the workbook's row for the metric carries the
\* same value, and when the workbook has no such row the client's is 0.
AgreesWithWorkbook(figure) ==
    LET theirs == SelectSeq(rpt.summary, LAMBDA r : r.metric = figure.metric)
    IN  IF theirs = <<>> THEN figure.value.num = 0
        ELSE /\ SameQuotient(figure.value, theirs[1].value)
             /\ figure.metric = "Medication Adherence"
                    => figure.value = theirs[1].value

(* C29.  For the same client, week and stored check-ins, the report the    *)
(* client obtains and the report the therapist obtains state the same      *)
(* check-in count, the same average emotional and activity ratings and the *)
(* same medication adherence (days adherent out of days counted), whatever *)
(* the ratings of the check-ins, null ratings and a medication value of 0  *)
(* included.                                                               *)
C29_ClientAndTherapistReportsAgree ==
    (OwnReportMade /\ SameClientAndWeek) =>
        /\ reply.summary.total_checkins = rpt.checkins_completed
        /\ \A k \in 1..Len(reply.summary.figures) :
              AgreesWithWorkbook(reply.summary.figures[k])
        /\ LET mail == EmailSummary(reply.client_id, reply.week_start)
               mine == reply.summary.figures
           IN  /\ mail.checkins_completed = reply.summary.total_checkins
               /\ mine # <<>> =>
                     /\ SameQuotient(mine[1].value, mail.avg_emotional)
                     /\ SameQuotient(mine[2].value, mail.adherence)
                     /\ SameQuotient(mine[3].value, mail.avg_activity)

\* Every check-in of the reported week carries an emotional and an
\* activity rating and a medication answer other than N/A.
EveryRatingGiven ==
    \A k \in 1..Len(WeekCheckins(reply.client_id, reply.week_start)) :
        LET c == WeekCheckins(reply.client_id, reply.week_start)[k]
        IN  /\ Truthy(c.emotional_value) /\ Truthy(c.activity_value)
            /\ Truthy(c.medication_value)

\* The reports do agree when no check-in of the week lacks a rating.
C29_ReportsAgreeWhenEveryRatingGiven ==
    (OwnReportMade /\ EveryRatingGiven) => C29_ClientAndTherapistReportsAgree

\* The two reports always state the same number of check-ins.
C29_SameCheckinCount ==
    (OwnReportMade /\ SameClientAndWeek) =>
        reply.summary.total_checkins = rpt.checkins_completed

-----------------------------------------------------------------------------
(* Specification SpecSerialRace: two workers create clients at the same    *)
(* time (create_client by therapist 1, or register with role 'client'),    *)
(* each in its own session and transaction on the PostgreSQL store: a      *)
(* query reads what is committed and what its own session has flushed, and *)
(* an insert of a serial another open transaction has inserted waits for   *)
(* that transaction to end.  The requests are otherwise valid and carry    *)
(* different emails, so the serial is the only thing they can collide on.  *)

MaxRaceRequests == 3

RaceOps == {"create_client", "register"}

\* The email of the n-th request.
RaceEmail(n) == <<"n">> \o NatText(n)

NoCreation == [pc |-> "idle", op |-> "", email |-> <<>>, serial |-> NULL, status |-> 0]

\* A store without the unique constraint on the serial: every insert goes
\* through.
SerialUnconstrained(serial, held) == "insert"

\* client_serial = db.Column(db.String(50), unique=True, nullable=False):
\* what becomes of an INSERT of the serial - it waits while another open
\* transaction holds the serial, is refused when a committed row has it,
\* and goes through otherwise.
SerialUnique(serial, held) ==
    IF held THEN "wait" ELSE IF SerialInUse(serial) THEN "refuse" ELSE "insert"

\* Another worker has flushed a client with this serial and not yet
\* committed.
SerialHeld(w, serial) ==
    \E o \in Workers \ {w} : tx[o].pc = "client_flushed" /\ tx[o].serial = Some(serial)

InitSerialRace ==
    /\ users = SeededUsers /\ therapists = SeededTherapists
    /\ clients = SeededClients /\ goals = SeededGoals
    /\ notes = <<>> /\ plans = SeededPlans
    /\ checkins = <<>> /\ responses = <<>> /\ completions = <<>>
    /\ reply = NoReply /\ tx = [w \in Workers |-> NoCreation] /\ served = 0
    /\ wk_in = <<>> /\ wk_out = [state |-> "none", r |-> NoWeek] /\ rpt = NoReport /\ gen = NoGen
    /\ categories = BuiltInCategories /\ initialized = TRUE

\* The handler up to db.session.flush() of the user: the email is looked
\* up among the committed users and the user row is inserted.
RaceBegin(w, op) ==
    /\ tx[w].pc \in {"idle", "done"}
    /\ served < MaxRaceRequests
    /\ served' = served + 1
    /\ ~EmailTaken(AccountTables, RaceEmail(served + 1))
    /\ tx' = [tx EXCEPT ![w] = [NoCreation EXCEPT !.pc = "user_flushed", !.op = op,
                                                  !.email = RaceEmail(served + 1)]]
    /\ UNCHANGED <<store, reply, wk_in, wk_out, rpt, gen, categories, initialized>>

\* generate_client_serial(): serials are drawn until the query finds no
\* client with the one drawn; the query does not see the rows other
\* transactions have not committed.
RaceDrawSerial(w) ==
    /\ tx[w].pc = "user_flushed"
    /\ \E serial \in Serials :
          /\ ~SerialInUse(serial)
          /\ tx' = [tx EXCEPT ![w].pc = "drawn", ![w].serial = Some(serial)]
    /\ UNCHANGED <<store, reply, served, wk_in, wk_out, rpt, gen, categories, initialized>>

\* The INSERT of the client row (db.session.flush() in create_client, the
\* autoflush before the category query in register).  When the store
\* refuses it the except branch rolls the session back and answers 500.
RaceFlushClient(w) ==
    LET outcome == SerialUnique(tx[w].serial[1], SerialHeld(w, tx[w].serial[1]))
    IN  /\ tx[w].pc = "drawn"
        /\ outcome # "wait"
        /\ IF outcome = "refuse"
           THEN /\ tx' = [tx EXCEPT ![w].pc = "done", ![w].status = 500]
                /\ reply' = [op |-> tx[w].op, who |-> 0, status |-> 500, error |-> "unique"]
           ELSE /\ tx' = [tx EXCEPT ![w].pc = "client_flushed"]
                /\ UNCHANGED reply
        /\ UNCHANGED <<store, served, wk_in, wk_out, rpt, gen, categories, initialized>>

\* The rest of the handler and db.session.commit(): the user, the client,
\* the plans and (create_client) the welcome note become committed rows.
RaceCommit(w) ==
    LET out == IF tx[w].op = "create_client"
               THEN CreateClient(1, Some(tx[w].email), <<>>, <<>>, tx[w].serial[1],
                                 Ordinal(2024, 1, 1))
               ELSE Register(Some(tx[w].email), TRUE, Some("client"), Some(1), NULL,
                             tx[w].serial[1])
    IN  /\ tx[w].pc = "client_flushed"
        /\ users' = users \o out.rows.users
        /\ therapists' = therapists \o out.rows.therapists
        /\ clients' = clients \o out.rows.clients
        /\ plans' = plans \o out.rows.plans
        /\ goals' = goals \o out.rows.goals
        /\ notes' = notes \o out.rows.notes
        /\ tx' = [tx EXCEPT ![w].pc = "done", ![w].status = out.status]
        /\ reply' = [op |-> tx[w].op, who |-> 0, status |-> out.status, error |-> out.error]
        /\ UNCHANGED <<checkins, responses, completions, served, wk_in, wk_out, rpt, gen,
                       categories, initialized>>

NextSerialRace ==
    \E w \in Workers :
        \/ \E op \in RaceOps : RaceBegin(w, op)
        \/ RaceDrawSerial(w)
        \/ RaceFlushClient(w)
        \/ RaceCommit(w)

SpecSerialRace == InitSerialRace /\ [][NextSerialRace]_vars

\* The committed users with an email and the committed clients with a
\* serial.
UsersWithEmail(email) == {i \in 1..Len(users) : users[i].email = email}

ClientsWithSerial(serial) == {i \in 1..Len(clients) : clients[i].client_serial = serial}

\* Both workers have answered requests that drew one and the same serial.
BothDrewTheSameSerial ==
    /\ \A w \in Workers : tx[w].pc = "done" /\ tx[w].serial # NULL
    /\ tx["w1"].serial = tx["w2"].serial

\* All the rows of worker w's creation are committed: its user, the client
\* of that user with its serial, and the three default plans.
CreationPersisted(w) ==
    /\ Cardinality(UsersWithEmail(tx[w].email)) = 1
    /\ \A u \in UsersWithEmail(tx[w].email) :
          \E c \in ClientsWithSerial(tx[w].serial[1]) :
              /\ clients[c].user_id = u
              /\ Cardinality({p \in 1..Len(plans) : plans[p].client_id = c}) = 3

\* None of the rows of worker w's creation is committed.
NothingPersisted(w) ==
    /\ UsersWithEmail(tx[w].email) = {}
    /\ \A c \in 1..Len(clients) : clients[c].user_id <= Len(users)
    /\ \A p \in 1..Len(plans) : plans[p].client_id <= Len(clients)
    /\ \A n \in 1..Len(notes) : notes[n].client_id <= Len(clients)

(* C30.  When two client creations run at the same time and                *)
(* generate_client_serial hands both the same serial, the committed store  *)
(* never holds two clients with one serial: once both are answered,        *)
(* exactly one has committed, with all its rows, and the other has failed  *)
(* with none of its rows in the store.                                     *)
C30_SameSerialNeverCommittedTwice ==
    /\ \A i, j \in 1..Len(clients) :
          clients[i].client_serial = clients[j].client_serial => i = j
    /\ BothDrewTheSameSerial =>
          \E w \in Workers : \E o \in Workers \ {w} :
              /\ tx[w].status = 200 /\ CreationPersisted(w)
              /\ tx[o].status = 500 /\ NothingPersisted(o)
              /\ Cardinality(ClientsWithSerial(tx[w].serial[1])) = 1

\* Two creations that drew one serial have both been answered, one of
\* them by create_client and one by register.
C30_Witness ==
    /\ BothDrewTheSameSerial
    /\ tx["w1"].op # tx["w2"].op
    /\ \E w \in Workers : tx[w].status = 500
    /\ ClientsWithSerial(tx["w1"].serial[1]) # {}

=============================================================================
